---- MODULE Spec2Model ----
(***************************************************************************)
(* A model of src/main.py: the crawler that maps the internal asset        *)
(* identifiers of characters ("students") to display names.                *)
(*                                                                         *)
(* The module holds these specifications over one set of variables:        *)
(*   SpecNorm   DataParser._normalize_file_id applied once and twice to a  *)
(*              raw token;                                                  *)
(*   SpecLabel  DataParser._process_spine_remark and the names built from  *)
(*              one remark;                                                 *)
(*   SpecWrite  the two CsvWriter calls of main;                           *)
(*   SpecParse  DataParser.parse applied to one character payload and a    *)
(*              list of spine assets;                                       *)
(*   SpecOrder  DataParser.parse applied to a list of spine assets and to  *)
(*              the same assets in another order;                          *)
(*   SpecTask   one run of main over a single student id, with every shape *)
(*              of answer the API can give;                                 *)
(*   Spec       one run of main over the ids 1..NumStudents, the tasks     *)
(*              interleaved under the admission semaphore;                 *)
(*   SpecMain   main in its three modes (complete run, check mode, test    *)
(*              mode) over the ids 1..NumStudents.                         *)
(* Python strings are TLA+ strings; JSON values are tagged records.        *)
(***************************************************************************)
EXTENDS Integers, Sequences, FiniteSets, TLC

(***************************************************************************)
(* Python strings.                                                         *)
(***************************************************************************)
Char(s, i) == SubSeq(s, i, i)

DigitChars == {"0", "1", "2", "3", "4", "5", "6", "7", "8", "9"}

\* str.lower() and str.upper(), one character: the ASCII letters change
LowerTable ==
    [A |-> "a", B |-> "b", C |-> "c", D |-> "d", E |-> "e", F |-> "f",
     G |-> "g", H |-> "h", I |-> "i", J |-> "j", K |-> "k", L |-> "l",
     M |-> "m", N |-> "n", O |-> "o", P |-> "p", Q |-> "q", R |-> "r",
     S |-> "s", T |-> "t", U |-> "u", V |-> "v", W |-> "w", X |-> "x",
     Y |-> "y", Z |-> "z"]

UpperTable ==
    [a |-> "A", b |-> "B", c |-> "C", d |-> "D", e |-> "E", f |-> "F",
     g |-> "G", h |-> "H", i |-> "I", j |-> "J", k |-> "K", l |-> "L",
     m |-> "M", n |-> "N", o |-> "O", p |-> "P", q |-> "Q", r |-> "R",
     s |-> "S", t |-> "T", u |-> "U", v |-> "V", w |-> "W", x |-> "X",
     y |-> "Y", z |-> "Z"]

LowerChar(c) == IF c \in DOMAIN LowerTable THEN LowerTable[c] ELSE c

UpperChar(c) == IF c \in DOMAIN UpperTable THEN UpperTable[c] ELSE c

RECURSIVE lower(_)
lower(s) == IF s = "" THEN "" ELSE LowerChar(Char(s, 1)) \o lower(SubSeq(s, 2, Len(s)))

RECURSIVE upper(_)
upper(s) == IF s = "" THEN "" ELSE UpperChar(Char(s, 1)) \o upper(SubSeq(s, 2, Len(s)))

startswith(s, p) == Len(s) >= Len(p) /\ SubSeq(s, 1, Len(p)) = p

endswith(s, p) == Len(s) >= Len(p) /\ SubSeq(s, Len(s) - Len(p) + 1, Len(s)) = p

\* `sub in s`
contains(s, sub) ==
    \E i \in 1..(Len(s) - Len(sub) + 1) : SubSeq(s, i, i + Len(sub) - 1) = sub

removesuffix(s, p) == IF endswith(s, p) THEN SubSeq(s, 1, Len(s) - Len(p)) ELSE s

removeprefix(s, p) == IF startswith(s, p) THEN SubSeq(s, Len(p) + 1, Len(s)) ELSE s

\* str.strip(): whitespace off both ends (the model's only whitespace is " ")
RECURSIVE lstrip(_)
lstrip(s) == IF s # "" /\ Char(s, 1) = " " THEN lstrip(SubSeq(s, 2, Len(s))) ELSE s

RECURSIVE rstrip(_)
rstrip(s) == IF s # "" /\ Char(s, Len(s)) = " " THEN rstrip(SubSeq(s, 1, Len(s) - 1)) ELSE s

strip(s) == rstrip(lstrip(s))

\* the code points of the characters the model's strings use, in Python's order
CodeOrder == " ,-0123456789ABCDEFGHIJKLMNOPQRSTUVWXYZ_abcdefghijklmnopqrstuvwxyz"

Ord(c) == CHOOSE i \in 1..Len(CodeOrder) : Char(CodeOrder, i) = c

\* a < b on Python strings (lexicographic by code point)
RECURSIVE StrLess(_, _)
StrLess(a, b) ==
    IF b = "" THEN FALSE
    ELSE IF a = "" THEN TRUE
    ELSE IF Char(a, 1) # Char(b, 1) THEN Ord(Char(a, 1)) < Ord(Char(b, 1))
    ELSE StrLess(SubSeq(a, 2, Len(a)), SubSeq(b, 2, Len(b)))

(***************************************************************************)
(* JSON values, as json.load and response.json() give them: tagged records.*)
(* A dict is a function from its keys to values; None is JNull.            *)
(***************************************************************************)
JNull == [t |-> "null"]
JInt(n) == [t |-> "int", v |-> n]
JStr(s) == [t |-> "str", v |-> s]
JList(xs) == [t |-> "list", v |-> xs]
JDict(f) == [t |-> "dict", v |-> f]

EmptyDict == JDict(<<>>)

\* Python truthiness: bool(j)
Truthy(j) ==
    CASE j.t = "null" -> FALSE
      [] j.t = "int" -> j.v # 0
      [] j.t = "str" -> j.v # ""
      [] j.t = "text" -> j.v # <<>>
      [] j.t = "list" -> j.v # <<>>
      [] j.t = "dict" -> DOMAIN j.v # {}

\* k in d, d.get(k, default) and d.get(k), for a dict d
HasKey(d, k) == k \in DOMAIN d.v

Get(d, k, default) == IF k \in DOMAIN d.v THEN d.v[k] ELSE default

GetOrNone(d, k) == Get(d, k, JNull)

\* `x or ""` for a name component (a string or None)
OrEmpty(j) == IF j.t = "str" THEN j.v ELSE ""

\* `x or 0` for an id (an int or None)
OrZero(j) == IF j.t = "int" THEN j.v ELSE 0

\* str(x) inside an f-string, for the values a type tag takes
FormatValue(j) ==
    CASE j.t = "str" -> j.v
      [] j.t = "null" -> "None"
      [] OTHER -> "?"

(***************************************************************************)
(* DataParser._normalize_file_id                                           *)
(***************************************************************************)
\* re.search(r"(CH|NP)\d{4}", file_id, re.IGNORECASE) matches at position i
StdMatchAt(file_id, i) ==
    /\ i + 5 <= Len(file_id)
    /\ lower(SubSeq(file_id, i, i + 1)) \in {"ch", "np"}
    /\ \A k \in (i + 2)..(i + 5) : Char(file_id, k) \in DigitChars

\* the positions of the (leftmost) match: empty when there is none
StdMatchPos(file_id) ==
    LET all == {i \in 1..Len(file_id) : StdMatchAt(file_id, i)}
    IN  {i \in all : \A j \in all : i <= j}

\* mutant: the loop over the prefixes ends at the first prefix removed
StripFirstPrefixOnly(s) ==
    IF startswith(lower(s), lower("J_")) THEN SubSeq(s, Len("J_") + 1, Len(s))
    ELSE IF startswith(lower(s), lower("new_")) THEN SubSeq(s, Len("new_") + 1, Len(s))
    ELSE IF startswith(lower(s), lower("old_")) THEN SubSeq(s, Len("old_") + 1, Len(s))
    ELSE s

\* for prefix in ['J_', 'new_', 'old_']: the loop visits every prefix in turn
StripPrefixesNoCase(s) ==
    LET p1 == IF startswith(lower(s), lower("J_")) THEN SubSeq(s, Len("J_") + 1, Len(s)) ELSE s
        p2 == IF startswith(lower(p1), lower("new_")) THEN SubSeq(p1, Len("new_") + 1, Len(p1)) ELSE p1
        p3 == IF startswith(lower(p2), lower("old_")) THEN SubSeq(p2, Len("old_") + 1, Len(p2)) ELSE p2
    IN  p3

\* for suffix in ['_spr', '_spr_update']: the loop visits every suffix in turn
StripSuffixes(s) ==
    LET s1 == IF endswith(s, "_spr") THEN removesuffix(s, "_spr") ELSE s
        s2 == IF endswith(s1, "_spr_update") THEN removesuffix(s1, "_spr_update") ELSE s1
    IN  s2

\* mutant: the search without re.IGNORECASE
NormalizeCaseSensitive(file_id) ==
    LET hits == {i \in 1..Len(file_id) :
                    /\ i + 5 <= Len(file_id)
                    /\ SubSeq(file_id, i, i + 1) \in {"CH", "NP"}
                    /\ \A k \in (i + 2)..(i + 5) : Char(file_id, k) \in DigitChars}
    IN  IF hits # {}
        THEN upper(SubSeq(file_id, CHOOSE i \in hits : \A j \in hits : i <= j,
                          (CHOOSE i \in hits : \A j \in hits : i <= j) + 5))
        ELSE lower(StripSuffixes(StripPrefixesNoCase(strip(file_id))))

\* mutant: the manual cleaning alone, without the search for the standard pattern
NormalizeManualOnly(file_id) == lower(StripSuffixes(StripPrefixesNoCase(strip(file_id))))

_normalize_file_id(file_id) ==
    IF StdMatchPos(file_id) # {}
    THEN LET i == CHOOSE i \in StdMatchPos(file_id) : TRUE
         IN  upper(SubSeq(file_id, i, i + 5))
    ELSE lower(StripSuffixes(StripPrefixesNoCase(strip(file_id))))

(***************************************************************************)
(* Reason strings.  The source's reasons are Chinese text; the model       *)
(* writes each as an ASCII rendering of the same constant.                 *)
(***************************************************************************)
REASON_NO_DATA_KEY == "invalid data or missing 'data' key"
REASON_EMPTY_DATA == "value of key 'data' is empty"
REASON_OFFICIAL == "official account"
REASON_EASTER_EGG == "easter egg"
REASON_NO_NAME == "missing name or invalid data"
REASON_NO_FORM == "no parseable form found"
REASON_NOT_FOUND == "not found (404)"
REASON_NETWORK == "network error"
REASON_UNKNOWN_ERROR == "unknown error"
REASON_UNKNOWN_NETWORK == "unknown network reason"

ReasonType(type_) == "type (" \o FormatValue(type_) \o ")"
ReasonKeyword(keyword) == "contains (" \o keyword \o ")"
ReasonSuffix(suffix) == "suffix (" \o removeprefix(suffix, "_") \o ")"

OFFICIAL_SCHOOL == 30
EASTER_EGG_ID == 348

(***************************************************************************)
(* DataParser: the character-level gate and the name builder               *)
(***************************************************************************)
\* mutant: the gate without the school rule
ValidateWithoutSchool(char_data) ==
    IF ~Truthy(char_data) \/ ~HasKey(char_data, "data") THEN JStr(REASON_NO_DATA_KEY)
    ELSE LET data == char_data.v["data"]
         IN  IF ~Truthy(data) THEN JStr(REASON_EMPTY_DATA)
             ELSE IF GetOrNone(data, "id") = JInt(EASTER_EGG_ID) THEN JStr(REASON_EASTER_EGG)
             ELSE JNull

\* char_data is None or a dict; its 'data' is None or a dict
_validate_and_get_skip_reason(char_data) ==
    IF ~Truthy(char_data) \/ ~HasKey(char_data, "data") THEN JStr(REASON_NO_DATA_KEY)
    ELSE LET data == char_data.v["data"]
         IN  IF ~Truthy(data) THEN JStr(REASON_EMPTY_DATA)
             ELSE IF GetOrNone(data, "school") = JInt(OFFICIAL_SCHOOL) THEN JStr(REASON_OFFICIAL)
             ELSE IF GetOrNone(data, "id") = JInt(EASTER_EGG_ID) THEN JStr(REASON_EASTER_EGG)
             ELSE JNull

\* family and given are strings or None
_build_name(family, given) ==
    LET family_name == OrEmpty(family)
        given_name == OrEmpty(given)
    IN  IF family_name # "" THEN strip(family_name \o " " \o given_name) ELSE given_name

(***************************************************************************)
(* DataParser._get_spine_skip_reason                                       *)
(***************************************************************************)
ACCEPT_TYPES == {JStr("spr")}
SPINE_KEYWORDS_TO_SKIP == <<"toschool", "minori", "ui_raidboss">>
SPINE_SUFFIXES_TO_SKIP == <<"_cn", "_steam", "_glitch_spr", "_cbt", "_halofix", "spr-2", "_old">>

\* mutant: the suffix list is consulted before the keyword list
SpineNameSkipReasonSuffixFirst(name_lower) ==
    LET kws == {i \in 1..Len(SPINE_KEYWORDS_TO_SKIP) : contains(name_lower, SPINE_KEYWORDS_TO_SKIP[i])}
        sfs == {i \in 1..Len(SPINE_SUFFIXES_TO_SKIP) : endswith(name_lower, SPINE_SUFFIXES_TO_SKIP[i])}
    IN  IF sfs # {}
        THEN JStr(ReasonSuffix(SPINE_SUFFIXES_TO_SKIP[CHOOSE i \in sfs : \A j \in sfs : i <= j]))
        ELSE IF kws # {}
        THEN JStr(ReasonKeyword(SPINE_KEYWORDS_TO_SKIP[CHOOSE i \in kws : \A j \in kws : i <= j]))
        ELSE JNull

\* the keyword and suffix rules (each list in order, the first hit gives the
\* reason), for a name that passed the name and type rules
SpineNameSkipReason(name_lower) ==
    LET kws == {i \in 1..Len(SPINE_KEYWORDS_TO_SKIP) : contains(name_lower, SPINE_KEYWORDS_TO_SKIP[i])}
        sfs == {i \in 1..Len(SPINE_SUFFIXES_TO_SKIP) : endswith(name_lower, SPINE_SUFFIXES_TO_SKIP[i])}
    IN  IF kws # {}
        THEN JStr(ReasonKeyword(SPINE_KEYWORDS_TO_SKIP[CHOOSE i \in kws : \A j \in kws : i <= j]))
        ELSE IF sfs # {}
        THEN JStr(ReasonSuffix(SPINE_SUFFIXES_TO_SKIP[CHOOSE i \in sfs : \A j \in sfs : i <= j]))
        ELSE JNull

\* mutant: a name that carries the standard identifier pattern passes the type rule
SkipReasonTrustingStdNames(spine_item) ==
    IF ~Truthy(spine_item) \/ ~Truthy(GetOrNone(spine_item, "name")) THEN JStr(REASON_NO_NAME)
    ELSE LET name == GetOrNone(spine_item, "name").v
             type_ == GetOrNone(spine_item, "type")
         IN  IF type_ \notin ACCEPT_TYPES /\ StdMatchPos(name) = {} THEN JStr(ReasonType(type_))
             ELSE SpineNameSkipReason(lower(name))

\* spine_item is a dict; its name is a string or None
_get_spine_skip_reason(spine_item) ==
    IF ~Truthy(spine_item) \/ ~Truthy(GetOrNone(spine_item, "name")) THEN JStr(REASON_NO_NAME)
    ELSE LET name == GetOrNone(spine_item, "name").v
             type_ == GetOrNone(spine_item, "type")
         IN  IF type_ \notin ACCEPT_TYPES THEN JStr(ReasonType(type_))
             ELSE SpineNameSkipReason(lower(name))

(***************************************************************************)
(* Remarks and skin labels.  Their text is Chinese, which a TLA+ string    *)
(* cannot hold, so such a Python string is a Text: the sequence of its     *)
(* characters, an ASCII character as itself and a Chinese character under  *)
(* its pinyin name ("li4" is U+7ACB).  JText(cs) is the JSON string of     *)
(* the characters cs.                                                      *)
(***************************************************************************)
TextOf(s) == [i \in 1..Len(s) |-> Char(s, i)]

JText(cs) == [t |-> "text", v |-> cs]

FW_OPEN == "fw("       \* U+FF08, the full-width (
FW_CLOSE == "fw)"      \* U+FF09, the full-width )
FW_COMMA == "fw,"      \* U+FF0C, the full-width ,

OpenParens == {"(", FW_OPEN}
CloseParens == {")", FW_CLOSE}
Commas == {",", FW_COMMA}

\* the characters of the model that \w does not match
NonWordChars == {" ", ",", ".", "-", "(", ")", FW_OPEN, FW_CLOSE, FW_COMMA}

ZH_INITIAL_POSE == <<"chu1", "shi3", "li4", "hui4">>   \* the default-pose marker
ZH_POSE == <<"li4", "hui4">>
ZH_VARIANT == <<"cha1", "fen1">>
ZH_YEAR == "nian2"
ZH_MONTH == "yue4"
ZH_DAY == "ri4"
ZH_BEFORE == "qian2"
ZH_AFTER == "hou4"
ZH_OF == "zhi1"
ZH_UPDATE == <<"geng1", "xin1">>
ZH_REVISION == <<"ban3", "ben3", "xiu1", "gai3">>
ZH_ALREADY == "yi3"
ZH_UPDATED_TO_RELEASE == <<"geng1", "xin1", "zhi4", "shi2", "zhuang1">>
ZH_FIXED == <<"xiu1", "zheng4">>
ZH_EDITION == "ban3"
ZH_OLD == "jiu4"
ZH_NEW == "xin1"
ZH_DRESS == <<"li3", "fu2">>
ZH_HINA == <<"ri4", "nai4">>
ZH_AKO == <<"ya4", "zi3">>
ZH_SUIT_FU == <<"xi1", "fu2">>
ZH_SUIT_ZHUANG == <<"xi1", "zhuang1">>

\* the character at place i of t, "" off either end
TextAt(t, i) == IF i >= 1 /\ i <= Len(t) THEN t[i] ELSE ""

\* the word w stands at place i of t
WordAt(t, i, w) == i >= 1 /\ i + Len(w) - 1 <= Len(t) /\ SubSeq(t, i, i + Len(w) - 1) = w

\* the same, ignoring the case of ASCII letters (w is in lower case)
WordAtNoCase(t, i, w) ==
    /\ i >= 1 /\ i + Len(w) - 1 <= Len(t)
    /\ \A k \in 1..Len(w) : LowerChar(t[i + k - 1]) = w[k]

\* how many characters from place i on are digits, and how many are spaces
RECURSIVE DigitRun(_, _)
DigitRun(t, i) == IF TextAt(t, i) \in DigitChars THEN 1 + DigitRun(t, i + 1) ELSE 0

RECURSIVE SpaceRun(_, _)
SpaceRun(t, i) == IF TextAt(t, i) = " " THEN 1 + SpaceRun(t, i + 1) ELSE 0

IsWordChar(c) == c # "" /\ c \notin NonWordChars

\* \b between the places i - 1 and i
WordBoundary(t, i) == IsWordChar(TextAt(t, i - 1)) # IsWordChar(TextAt(t, i))

\* the place of the first closing parenthesis after place i, 0 when none
FirstClose(t, i) ==
    LET js == {j \in (i + 1)..Len(t) : t[j] \in CloseParens}
    IN  IF js = {} THEN 0 ELSE CHOOSE j \in js : \A k \in js : j <= k

(***************************************************************************)
(* The patterns of _process_spine_remark.  Match...(t, i) is the place     *)
(* after the match that starts at place i, or 0 when the pattern does not  *)
(* match there.                                                            *)
(***************************************************************************)
MatchWord(t, i, w) == IF WordAt(t, i, w) THEN i + Len(w) ELSE 0

\* [\(（][^\)）]*?\d{2,4}[年\.][^\)）]*?[\)）]
MatchDatedParens(t, i) ==
    IF TextAt(t, i) \notin OpenParens \/ FirstClose(t, i) = 0 THEN 0
    ELSE LET j == FirstClose(t, i)
         IN  IF \E p \in (i + 3)..(j - 1) :
                    /\ t[p] \in {ZH_YEAR, "."}
                    /\ t[p - 1] \in DigitChars /\ t[p - 2] \in DigitChars
             THEN j + 1 ELSE 0

\* (?:之?[前后]|更新|版本修改)? at place i: the number of characters it takes
DateSuffixLen(t, i) ==
    IF TextAt(t, i) = ZH_OF /\ TextAt(t, i + 1) \in {ZH_BEFORE, ZH_AFTER} THEN 2
    ELSE IF TextAt(t, i) \in {ZH_BEFORE, ZH_AFTER} THEN 1
    ELSE IF WordAt(t, i, ZH_UPDATE) THEN Len(ZH_UPDATE)
    ELSE IF WordAt(t, i, ZH_REVISION) THEN Len(ZH_REVISION)
    ELSE 0

\* \d{2,4}[年\.-]\d{1,2}[月\.-]\d{0,2}日?\s*(?:之?[前后]|更新|版本修改)?
MatchBareDate(t, i) ==
    LET n1 == DigitRun(t, i)
        p == i + n1
        n2 == DigitRun(t, p + 1)
        q == p + 1 + n2
        n3 == IF DigitRun(t, q + 1) > 2 THEN 2 ELSE DigitRun(t, q + 1)
        r == q + 1 + n3
        r2 == IF TextAt(t, r) = ZH_DAY THEN r + 1 ELSE r
        r3 == r2 + SpaceRun(t, r2)
    IN  IF /\ n1 \in 2..4 /\ TextAt(t, p) \in {ZH_YEAR, ".", "-"}
           /\ n2 \in 1..2 /\ TextAt(t, q) \in {ZH_MONTH, ".", "-"}
        THEN r3 + DateSuffixLen(t, r3)
        ELSE 0

\* [\(（](?:已)?更新至实装[\)）]
MatchUpdatedToRelease(t, i) ==
    LET k == IF TextAt(t, i + 1) = ZH_ALREADY THEN i + 2 ELSE i + 1
        e == k + Len(ZH_UPDATED_TO_RELEASE)
    IN  IF /\ TextAt(t, i) \in OpenParens
           /\ WordAt(t, k, ZH_UPDATED_TO_RELEASE)
           /\ TextAt(t, e) \in CloseParens
        THEN e + 1 ELSE 0

\* 修正版?
MatchFixed(t, i) ==
    IF ~WordAt(t, i, ZH_FIXED) THEN 0
    ELSE IF TextAt(t, i + Len(ZH_FIXED)) = ZH_EDITION THEN i + Len(ZH_FIXED) + 1
    ELSE i + Len(ZH_FIXED)

\* ver\.?\d*\b from place i: the dot and the most digits first, then fewer
\* digits, then no dot
MatchVer(t, i) ==
    LET a == i + 3
        dotted == IF TextAt(t, a) = "."
                  THEN {e \in (a + 1)..(a + 1 + DigitRun(t, a + 1)) : WordBoundary(t, e)}
                  ELSE {}
        plain == {e \in a..(a + DigitRun(t, a)) : WordBoundary(t, e)}
    IN  IF ~WordAtNoCase(t, i, <<"v", "e", "r">>) THEN 0
        ELSE IF dotted # {} THEN CHOOSE e \in dotted : \A x \in dotted : x <= e
        ELSE IF plain # {} THEN CHOOSE e \in plain : \A x \in plain : x <= e
        ELSE 0

\* (?i)\b(old|new|fixed|ver\.?\d*)\b
MatchStatusWord(t, i) ==
    IF ~WordBoundary(t, i) THEN 0
    ELSE IF WordAtNoCase(t, i, <<"o", "l", "d">>) /\ WordBoundary(t, i + 3) THEN i + 3
    ELSE IF WordAtNoCase(t, i, <<"n", "e", "w">>) /\ WordBoundary(t, i + 3) THEN i + 3
    ELSE IF WordAtNoCase(t, i, <<"f", "i", "x", "e", "d">>) /\ WordBoundary(t, i + 5) THEN i + 5
    ELSE MatchVer(t, i)

\* [旧新]
MatchOldNew(t, i) == IF TextAt(t, i) \in {ZH_OLD, ZH_NEW} THEN i + 1 ELSE 0

\* [\(（][\)）]
MatchEmptyParens(t, i) ==
    IF TextAt(t, i) \in OpenParens /\ TextAt(t, i + 1) \in CloseParens THEN i + 2 ELSE 0

\* [,，]\s*[,，]
MatchDoubleComma(t, i) ==
    LET e == i + 1 + SpaceRun(t, i + 1)
    IN  IF TextAt(t, i) \in Commas /\ TextAt(t, e) \in Commas THEN e + 1 ELSE 0

\* [\(（]\s*([^)）]+?)\s*[\)）]
MatchParens(t, i) ==
    IF TextAt(t, i) \in OpenParens /\ FirstClose(t, i) > i + 1 THEN FirstClose(t, i) + 1 ELSE 0

\* the group of that match: the content without the spaces around it, or one
\* space when the content is spaces only
ParensGroup(t, i) ==
    LET j == FirstClose(t, i)
        lead == SpaceRun(t, i + 1)
        a == IF i + 1 + lead >= j THEN j - 1 ELSE i + 1 + lead
        bs == {b \in a..(j - 1) : \A k \in (b + 1)..(j - 1) : t[k] = " "}
    IN  SubSeq(t, a, CHOOSE b \in bs : \A x \in bs : b <= x)

\* 礼服(?:日奈|亚子)
MatchDressOf(t, i) ==
    IF WordAt(t, i, ZH_DRESS) /\ (WordAt(t, i + 2, ZH_HINA) \/ WordAt(t, i + 2, ZH_AKO)) THEN i + 4 ELSE 0

\* the patterns by name
MatchEnd(pat, t, i) ==
    CASE pat = "initial_pose" -> MatchWord(t, i, ZH_INITIAL_POSE)
      [] pat = "pose" -> MatchWord(t, i, ZH_POSE)
      [] pat = "variant" -> MatchWord(t, i, ZH_VARIANT)
      [] pat = "dated_parens" -> MatchDatedParens(t, i)
      [] pat = "bare_date" -> MatchBareDate(t, i)
      [] pat = "updated_to_release" -> MatchUpdatedToRelease(t, i)
      [] pat = "fixed" -> MatchFixed(t, i)
      [] pat = "update" -> MatchWord(t, i, ZH_UPDATE)
      [] pat = "status_word" -> MatchStatusWord(t, i)
      [] pat = "old_new" -> MatchOldNew(t, i)
      [] pat = "empty_parens" -> MatchEmptyParens(t, i)
      [] pat = "ascii_empty_parens" -> MatchWord(t, i, <<"(", ")">>)
      [] pat = "fw_empty_parens" -> MatchWord(t, i, <<FW_OPEN, FW_CLOSE>>)
      [] pat = "double_comma" -> MatchDoubleComma(t, i)
      [] pat = "parens" -> MatchParens(t, i)
      [] pat = "dress_of" -> MatchDressOf(t, i)
      [] pat = "suit" -> MatchWord(t, i, ZH_SUIT_FU)

\* what the match of pat at place i is replaced with
Replacement(pat, t, i) ==
    CASE pat = "double_comma" -> <<",">>
      [] pat = "parens" -> <<",">> \o ParensGroup(t, i)
      [] pat = "dress_of" -> ZH_DRESS
      [] pat = "suit" -> ZH_SUIT_ZHUANG
      [] OTHER -> <<>>

\* re.sub(pat, repl, t) and str.replace, from place i on: the leftmost match,
\* then the leftmost match after it
RECURSIVE SubFrom(_, _, _)
\* e is the place after the match at place i, 0 when there is none
SubStep(pat, t, i, e) ==
    IF e > i THEN Replacement(pat, t, i) \o SubFrom(pat, t, e)
    ELSE <<t[i]>> \o SubFrom(pat, t, i + 1)

SubFrom(pat, t, i) == IF i > Len(t) THEN <<>> ELSE SubStep(pat, t, i, MatchEnd(pat, t, i))

Sub(pat, t) == SubFrom(pat, t, 1)

\* mutant: the list of removal patterns without the default-pose marker
PatternsWithoutInitialPose ==
    <<"pose", "variant", "dated_parens", "bare_date", "updated_to_release",
      "fixed", "update", "status_word", "old_new", "empty_parens">>

\* the removal patterns, in the order of the list `patterns`
patterns ==
    <<"initial_pose", "pose", "variant", "dated_parens", "bare_date", "updated_to_release",
      "fixed", "update", "status_word", "old_new", "empty_parens">>

\* for pat in patterns: processed = re.sub(pat, "", processed), from pattern k on
RECURSIVE ApplyPatterns(_, _)
ApplyPatterns(t, k) ==
    IF k > Len(patterns) THEN t ELSE ApplyPatterns(Sub(patterns[k], t), k + 1)

\* str.strip(chars)
RECURSIVE StripChars(_, _)
StripChars(t, chars) ==
    IF t # <<>> /\ t[1] \in chars THEN StripChars(Tail(t), chars)
    ELSE IF t # <<>> /\ t[Len(t)] \in chars THEN StripChars(SubSeq(t, 1, Len(t) - 1), chars)
    ELSE t

\* the text of a skin label or a name given as JSON: "" for None
TextOrEmpty(j) ==
    CASE j.t = "text" -> j.v
      [] j.t = "str" -> TextOf(j.v)
      [] OTHER -> <<>>

\* mutant: the cleaned remark is compared with the base skin label only
UnlessRepeatsSkin(processed, base_skin, name) ==
    IF base_skin # <<>> /\ processed = base_skin THEN <<>> ELSE processed

\* remark, base_skin and name are Texts (<<>> for None and for "")
\* `if base_skin and processed == base_skin` and `if name and processed == name`
UnlessRepeated(processed, base_skin, name) ==
    IF base_skin # <<>> /\ processed = base_skin THEN <<>>
    ELSE IF name # <<>> /\ processed = name THEN <<>>
    ELSE processed

_process_spine_remark(remark, base_skin, name) ==
    IF remark = <<>> THEN <<>>
    ELSE LET removed == ApplyPatterns(remark, 1)
             tidy == StripChars(Sub("fw_empty_parens", Sub("ascii_empty_parens", removed)), {" "})
             trimmed == StripChars(tidy, {",", FW_COMMA, " "})
             commas == Sub("double_comma", trimmed)
             flat == StripChars(Sub("parens", commas), {",", FW_COMMA})
             processed == Sub("suit", Sub("dress_of", flat))
         IN  UnlessRepeated(processed, base_skin, name)

(***************************************************************************)
(* DataParser._LANG_CONFIG and DataParser._build_formatted_name.  A name   *)
(* that may carry a skin suffix is a Text.                                 *)
(***************************************************************************)
LangKeys == {"full_name", "name", "cn", "jp", "tw", "en", "kr"}

LangConfig(fam_key, giv_key, skin_key, include_skin) ==
    [fam_key |-> fam_key, giv_key |-> giv_key, skin_key |-> skin_key, include_skin |-> include_skin]

_LANG_CONFIG ==
    [lang_key \in LangKeys |->
        CASE lang_key = "full_name" -> LangConfig("family_name", "given_name", "skin", TRUE)
          [] lang_key = "name" -> LangConfig("family_name", "given_name", "", FALSE)
          [] lang_key = "cn" -> LangConfig("family_name_cn", "given_name_cn", "skin_cn", TRUE)
          [] lang_key = "jp" -> LangConfig("family_name_jp", "given_name_jp", "skin_jp", TRUE)
          [] lang_key = "tw" -> LangConfig("family_name_zh_tw", "given_name_zh_tw", "skin_zh_tw", TRUE)
          [] lang_key = "en" -> LangConfig("family_name_en", "given_name_en", "", FALSE)
          [] lang_key = "kr" -> LangConfig("family_name_kr", "given_name_kr", "", FALSE)]

\* ",".join(s for s in [base_skin, processed_remark] if s)
JoinSkinParts(base_skin, processed_remark) ==
    IF base_skin # <<>> /\ processed_remark # <<>> THEN base_skin \o <<",">> \o processed_remark
    ELSE IF base_skin # <<>> THEN base_skin
    ELSE processed_remark

\* f"{base_name}（{final_skin}）", or the base name for an empty final_skin
WithSuffix(base_name, final_skin) ==
    IF final_skin # <<>> THEN base_name \o <<FW_OPEN>> \o final_skin \o <<FW_CLOSE>> ELSE base_name

\* the skin part of a name: the base skin label and the cleaned remark
FinalSkin(base_skin, spine_remark, base_name) ==
    JoinSkinParts(base_skin, _process_spine_remark(TextOrEmpty(spine_remark), base_skin, base_name))

\* mutant: the suffix is appended whatever the language's configuration says
FormattedNameAlwaysSuffixed(data, lang_key, spine_remark) ==
    LET cfg == _LANG_CONFIG[lang_key]
        base_name == TextOf(_build_name(GetOrNone(data, cfg.fam_key), GetOrNone(data, cfg.giv_key)))
        base_skin == TextOrEmpty(GetOrNone(data, cfg.skin_key))
    IN  IF base_name = <<>> THEN <<>>
        ELSE WithSuffix(base_name, FinalSkin(base_skin, spine_remark, base_name))

\* data is the character's dict, spine_remark the asset's remark as JSON
_build_formatted_name(data, lang_key, spine_remark) ==
    LET cfg == _LANG_CONFIG[lang_key]
        base_name == TextOf(_build_name(GetOrNone(data, cfg.fam_key), GetOrNone(data, cfg.giv_key)))
        base_skin == TextOrEmpty(GetOrNone(data, cfg.skin_key))
    IN  IF base_name = <<>> THEN <<>>
        ELSE IF ~cfg.include_skin THEN base_name
        ELSE WithSuffix(base_name, FinalSkin(base_skin, spine_remark, base_name))

(***************************************************************************)
(* DataParser.parse                                                        *)
(* The name columns of a StudentForm and its skin_name are Texts;          *)
(* forms_map is the sequence of its values in insertion order, as a Python *)
(* dict keeps them.                                                        *)
(***************************************************************************)
SkippedRecord(student_id, spine_id, reason, spine_name, spine_remark, name, name_jp, name_en, school) ==
    [student_id |-> student_id, spine_id |-> spine_id, reason |-> reason,
     spine_name |-> spine_name, spine_remark |-> spine_remark,
     name |-> name, name_jp |-> name_jp, name_en |-> name_en, school |-> school]

StudentForm(file_id, char_id, spine_id, full_name, name, skin_name, name_cn, name_jp, name_tw, name_en, name_kr) ==
    [file_id |-> file_id, char_id |-> char_id, spine_id |-> spine_id,
     full_name |-> full_name, name |-> name, skin_name |-> skin_name,
     name_cn |-> name_cn, name_jp |-> name_jp, name_tw |-> name_tw,
     name_en |-> name_en, name_kr |-> name_kr]

\* the form of one accepted asset: its names in every language and its skin_name
FormOf(data, kivo_wiki_id, spine_item, file_id) ==
    LET spine_remark == Get(spine_item, "remark", JStr(""))
        names == [key \in LangKeys |-> _build_formatted_name(data, key, spine_remark)]
        default_name == TextOf(_build_name(GetOrNone(data, "family_name"), GetOrNone(data, "given_name")))
        base_skin == TextOrEmpty(GetOrNone(data, "skin"))
        processed_remark == _process_spine_remark(TextOrEmpty(spine_remark), base_skin, default_name)
    IN  StudentForm(file_id, kivo_wiki_id, GetOrNone(spine_item, "id"),
            names["full_name"], names["name"], JoinSkinParts(base_skin, processed_remark),
            names["cn"], names["jp"], names["tw"], names["en"], names["kr"])

\* file_id in forms_map
InFormsMap(forms_map, file_id) == \E k \in 1..Len(forms_map) : forms_map[k].file_id = file_id

\* forms_map[file_id] = form  (a new key goes last, an existing key keeps its place)
FormsMapPut(forms_map, form) ==
    IF InFormsMap(forms_map, form.file_id)
    THEN [k \in 1..Len(forms_map) |->
            IF forms_map[k].file_id = form.file_id THEN form ELSE forms_map[k]]
    ELSE Append(forms_map, form)

FormsMapGet(forms_map, file_id) ==
    forms_map[CHOOSE k \in 1..Len(forms_map) : forms_map[k].file_id = file_id]

\* mutant: the first asset of an identifier is never replaced
MergeFirstWins(forms_map, form) ==
    IF InFormsMap(forms_map, form.file_id) THEN forms_map ELSE FormsMapPut(forms_map, form)

\* mutant: the later asset always replaces the earlier one
MergeLastWins(forms_map, form) == FormsMapPut(forms_map, form)

\* the merge of one candidate form into forms_map
MergeForm(forms_map, form) ==
    IF InFormsMap(forms_map, form.file_id)
    THEN IF OrZero(form.spine_id) > OrZero(FormsMapGet(forms_map, form.file_id).spine_id)
         THEN FormsMapPut(forms_map, form)
         ELSE forms_map
    ELSE FormsMapPut(forms_map, form)

\* the body of `for spine_item in spine_data`, from asset i on
RECURSIVE ParseLoop(_, _, _, _, _, _)
ParseLoop(data, kivo_wiki_id, spine_data, i, forms_map, skipped_spines) ==
    IF i > Len(spine_data)
    THEN [forms_map |-> forms_map, skipped_spines |-> skipped_spines]
    ELSE LET spine_item == spine_data[i]
             skip_reason == _get_spine_skip_reason(spine_item)
         IN  IF skip_reason # JNull
             THEN ParseLoop(data, kivo_wiki_id, spine_data, i + 1, forms_map,
                    Append(skipped_spines,
                        SkippedRecord(kivo_wiki_id,
                            GetOrNone(spine_item, "id"),
                            skip_reason.v,
                            GetOrNone(spine_item, "name"),
                            Get(spine_item, "remark", JStr("")),
                            JStr(_build_name(GetOrNone(data, "family_name"), GetOrNone(data, "given_name"))),
                            _build_name(GetOrNone(data, "family_name_jp"), GetOrNone(data, "given_name_jp")),
                            _build_name(GetOrNone(data, "family_name_en"), GetOrNone(data, "given_name_en")),
                            Get(data, "school", JStr("")))))
             ELSE LET file_id == _normalize_file_id(spine_item.v["name"].v)
                  IN  IF file_id = ""
                      THEN ParseLoop(data, kivo_wiki_id, spine_data, i + 1, forms_map, skipped_spines)
                      ELSE ParseLoop(data, kivo_wiki_id, spine_data, i + 1,
                             MergeForm(forms_map, FormOf(data, kivo_wiki_id, spine_item, file_id)),
                             skipped_spines)

\* mutant: the "no parseable form" return is taken whenever there is no form
ParseResultIgnoringSkipped(done) ==
    IF done.forms_map = <<>>
    THEN [forms |-> <<>>, skipped |-> <<>>, reason |-> JStr(REASON_NO_FORM)]
    ELSE [forms |-> done.forms_map, skipped |-> done.skipped_spines, reason |-> JNull]

\* returns (forms, skipped spines, the student's skip reason or None)
\* `if not results and not skipped_spines` and the return of parse
ParseResult(done) ==
    IF done.forms_map = <<>> /\ done.skipped_spines = <<>>
    THEN [forms |-> <<>>, skipped |-> <<>>, reason |-> JStr(REASON_NO_FORM)]
    ELSE [forms |-> done.forms_map, skipped |-> done.skipped_spines, reason |-> JNull]

parse(json_data, kivo_wiki_id, spine_data) ==
    IF _validate_and_get_skip_reason(json_data) # JNull
    THEN [forms |-> <<>>, skipped |-> <<>>, reason |-> _validate_and_get_skip_reason(json_data)]
    ELSE ParseResult(ParseLoop(json_data.v["data"], kivo_wiki_id, spine_data, 1, <<>>, <<>>))

(***************************************************************************)
(* CsvWriter.  A path is the file name under OUTPUT_DIR; open(filepath)    *)
(* raises IOError for the paths in `bad` (a locked or read-only file).     *)
(***************************************************************************)
OUTPUT_FILENAME == "students_data.csv"
SKIPPED_FILENAME == "skipped_ids.csv"

\* original_filename.rsplit('.', 1) and f"{base}_backup.{ext}"
_get_alternative_filename(original_filename) ==
    LET dots == {i \in 1..Len(original_filename) : Char(original_filename, i) = "."}
        dot == CHOOSE i \in dots : \A j \in dots : j <= i
    IN  SubSeq(original_filename, 1, dot - 1) \o "_backup."
            \o SubSeq(original_filename, dot + 1, Len(original_filename))

filenames_to_try(filename) == <<filename, _get_alternative_filename(filename)>>

\* mutant: the failure of the last file name is raised to the caller
TryFilesRaising(to_try, k, bad) ==
    LET opened == {i \in k..Len(to_try) : to_try[i] \notin bad}
        first == CHOOSE i \in opened : \A j \in opened : i <= j
    IN  IF opened # {}
        THEN [attempts |-> SubSeq(to_try, k, first), written |-> <<to_try[first]>>,
              failed |-> FALSE, raised |-> FALSE]
        ELSE [attempts |-> SubSeq(to_try, k, Len(to_try)), written |-> <<>>,
              failed |-> TRUE, raised |-> TRUE]

\* `for filepath in filenames_to_try`, from file name k on: the paths opened,
\* the path written (if any), whether the loss was logged, whether an
\* exception leaves the method
RECURSIVE TryFiles(_, _, _)
TryFiles(to_try, k, bad) ==
    IF k > Len(to_try)
    THEN [attempts |-> <<>>, written |-> <<>>, failed |-> FALSE, raised |-> FALSE]
    ELSE IF to_try[k] \notin bad
    THEN [attempts |-> <<to_try[k]>>, written |-> <<to_try[k]>>, failed |-> FALSE, raised |-> FALSE]
    ELSE IF k = Len(to_try)
    THEN [attempts |-> <<to_try[k]>>, written |-> <<>>, failed |-> TRUE, raised |-> FALSE]
    ELSE LET rest == TryFiles(to_try, k + 1, bad)
         IN  [rest EXCEPT !.attempts = <<to_try[k]>> \o rest.attempts]

\* CsvWriter(filename).write(data) and .write_skipped(data): nothing is opened
\* for empty data
WriterCall(filename, data, bad) ==
    IF data = <<>>
    THEN [attempts |-> <<>>, written |-> <<>>, failed |-> FALSE, raised |-> FALSE]
    ELSE TryFiles(filenames_to_try(filename), 1, bad)

(***************************************************************************)
(* CacheManager._clean_student_data, as save_student applies it.  The      *)
(* cleaner works in place: the caller's payload is the cleaned one.        *)
(***************************************************************************)
STRIPPED_MARKER == "(stripped)"

keys_to_remove ==
    {"gallery", "more", "sd_model_image", "avatar", "recollection_lobby_image",
     "introduction", "introduction_cn", "voice_play_icon", "voice_pause_icon",
     "source", "contributor"}

keys_to_strip == {"voice", "voice_cn", "voice_kr"}

sub_keys_to_remove == {"skill", "cultivate_material", "equipment", "basic"}

weapons_fields_to_remove == {"icon", "description", "description_cn", "info", "skill"}

\* d without the keys of ks (dict.pop(key, None) for each)
WithoutKeys(d, ks) == JDict([k \in (DOMAIN d.v) \ ks |-> d.v[k]])

CleanCharData(char_data) ==
    LET popped == WithoutKeys(char_data, sub_keys_to_remove)
    IN  IF HasKey(popped, "weapons") /\ popped.v["weapons"].t = "dict"
        THEN JDict([k \in DOMAIN popped.v |->
                IF k = "weapons" THEN WithoutKeys(popped.v[k], weapons_fields_to_remove)
                ELSE popped.v[k]])
        ELSE popped

\* the loop over data['character_datas'] fails on a value that is no list of dicts
CleanRaises(json_data) ==
    /\ Truthy(json_data) /\ HasKey(json_data, "data")
    /\ json_data.v["data"].t = "dict"
    /\ HasKey(json_data.v["data"], "character_datas")
    /\ LET cd == json_data.v["data"].v["character_datas"]
       IN  \/ cd.t \in {"null", "int"}
           \/ cd.t = "list" /\ \E i \in 1..Len(cd.v) : cd.v[i].t # "dict"

_clean_student_data(json_data) ==
    IF ~Truthy(json_data) \/ ~HasKey(json_data, "data") THEN json_data
    ELSE IF json_data.v["data"].t # "dict" THEN json_data
    ELSE LET data == WithoutKeys(json_data.v["data"], keys_to_remove)
             cleaned ==
                JDict([k \in DOMAIN data.v |->
                    IF k \in keys_to_strip
                    THEN (IF Truthy(data.v[k]) THEN JList(<<JStr(STRIPPED_MARKER)>>) ELSE JList(<<>>))
                    ELSE IF k = "character_datas" /\ data.v[k].t = "list"
                    THEN JList([i \in 1..Len(data.v[k].v) |-> CleanCharData(data.v[k].v[i])])
                    ELSE data.v[k]])
         IN  JDict([k \in DOMAIN json_data.v |-> IF k = "data" THEN cleaned ELSE json_data.v[k]])

(***************************************************************************)
(* APIClient.fetch_student_data: what one request to the API gives.        *)
(* A response is a 404, a transport error, another HTTP error or an        *)
(* undecodable body (both reach `except Exception`), or a JSON body.       *)
(***************************************************************************)
Resp404 == [kind |-> "404"]
RespNetworkError == [kind |-> "request_error"]
RespHttpError == [kind |-> "http_error"]
RespJson(body) == [kind |-> "json", body |-> body]

SUCCESS_CODE == 2000

\* mutant: every payload that could be cleaned is saved, whatever its code
RequestJsonSavingAnyCode(body) ==
    IF ~Truthy(body)
    THEN [json_data |-> body, reason |-> JNull, save |-> FALSE]
    ELSE IF body.t # "dict"
    THEN [json_data |-> JNull, reason |-> JStr(REASON_UNKNOWN_ERROR), save |-> FALSE]
    ELSE IF CleanRaises(body)
    THEN [json_data |-> JNull, reason |-> JStr(REASON_UNKNOWN_ERROR), save |-> FALSE]
    ELSE [json_data |-> _clean_student_data(body), reason |-> JNull,
          save |-> Truthy(_clean_student_data(body))]

\* response.json() gave body: the save of a code-2000 payload and the return
RequestJson(body) ==
    IF ~Truthy(body)
    THEN [json_data |-> body, reason |-> JNull, save |-> FALSE]
    ELSE IF body.t # "dict"              \* json_data.get raises AttributeError
    THEN [json_data |-> JNull, reason |-> JStr(REASON_UNKNOWN_ERROR), save |-> FALSE]
    ELSE IF GetOrNone(body, "code") # JInt(SUCCESS_CODE)
    THEN [json_data |-> body, reason |-> JNull, save |-> FALSE]
    ELSE IF CleanRaises(body)            \* save_student raises inside the try
    THEN [json_data |-> JNull, reason |-> JStr(REASON_UNKNOWN_ERROR), save |-> FALSE]
    ELSE [json_data |-> _clean_student_data(body), reason |-> JNull,
          save |-> Truthy(_clean_student_data(body))]

\* mutant: a 404 is left to raise_for_status, like any other failed status
RequestStudentNo404(resp) ==
    CASE resp.kind \in {"404", "http_error"} ->
            [json_data |-> JNull, reason |-> JStr(REASON_UNKNOWN_ERROR), save |-> FALSE]
      [] resp.kind = "request_error" ->
            [json_data |-> JNull, reason |-> JStr(REASON_NETWORK), save |-> FALSE]
      [] resp.kind = "json" -> RequestJson(resp.body)

\* (json_data, reason) of a request, and whether the payload was saved to the cache
RequestStudent(resp) ==
    CASE resp.kind = "404" ->
            [json_data |-> JNull, reason |-> JStr(REASON_NOT_FOUND), save |-> FALSE]
      [] resp.kind = "request_error" ->
            [json_data |-> JNull, reason |-> JStr(REASON_NETWORK), save |-> FALSE]
      [] resp.kind = "http_error" ->
            [json_data |-> JNull, reason |-> JStr(REASON_UNKNOWN_ERROR), save |-> FALSE]
      [] resp.kind = "json" -> RequestJson(resp.body)

(***************************************************************************)
(* The sort keys of main and a stable sort (list.sort is stable).          *)
(***************************************************************************)
\* (x.char_id, x.file_id) < (y.char_id, y.file_id)
FormKeyLess(x, y) ==
    \/ x.char_id < y.char_id
    \/ x.char_id = y.char_id /\ StrLess(x.file_id, y.file_id)

\* x.spine_id or -1
SpineIdOrSentinel(x) == IF Truthy(x.spine_id) THEN x.spine_id.v ELSE -1

\* (x.student_id, x.spine_id or -1) < (y.student_id, y.spine_id or -1)
SkipKeyLess(x, y) ==
    \/ x.student_id < y.student_id
    \/ x.student_id = y.student_id /\ SpineIdOrSentinel(x) < SpineIdOrSentinel(y)

\* x put into the sorted list after every element that is not greater
InsertForm(sorted, x) ==
    LET n == Cardinality({k \in 1..Len(sorted) : ~FormKeyLess(x, sorted[k])})
    IN  SubSeq(sorted, 1, n) \o <<x>> \o SubSeq(sorted, n + 1, Len(sorted))

InsertSkip(sorted, x) ==
    LET n == Cardinality({k \in 1..Len(sorted) : ~SkipKeyLess(x, sorted[k])})
    IN  SubSeq(sorted, 1, n) \o <<x>> \o SubSeq(sorted, n + 1, Len(sorted))

\* mutant: the forms ordered by file_id alone
SortFormsByFileId(forms) ==
    LET RECURSIVE Go(_)
        Go(n) ==
            IF n = 0 THEN <<>>
            ELSE LET sorted == Go(n - 1)
                     x == forms[n]
                     m == Cardinality({k \in 1..Len(sorted) : ~StrLess(x.file_id, sorted[k].file_id)})
                 IN  SubSeq(sorted, 1, m) \o <<x>> \o SubSeq(sorted, m + 1, Len(sorted))
    IN  Go(Len(forms))

\* all_student_forms.sort(key=lambda x: (x.char_id, x.file_id))
SortForms(forms) ==
    LET RECURSIVE Go(_)
        Go(n) == IF n = 0 THEN <<>> ELSE InsertForm(Go(n - 1), forms[n])
    IN  Go(Len(forms))

\* skipped_records.sort(key=lambda x: (x.student_id, x.spine_id or -1))
SortSkipped(records) ==
    LET RECURSIVE Go(_)
        Go(n) == IF n = 0 THEN <<>> ELSE InsertSkip(Go(n - 1), records[n])
    IN  Go(Len(records))

(***************************************************************************)
(* Raw tokens for SpecNorm: every concatenation of at most MaxChunks       *)
(* fragments, and the tokens the specification names.                      *)
(***************************************************************************)
MaxChunks == 3

Fragments ==
    {"J_", "new_", "OLD_", "CH", "np", "0201", "12", "_spr", "_spr_update",
     "_SPR", "shiroko", " "}

RECURSIVE Concats(_)
Concats(n) ==
    IF n = 0 THEN {""}
    ELSE LET shorter == Concats(n - 1)
         IN  shorter \cup {s \o f : s \in shorter, f \in Fragments}

NamedTokens == {"J_CH0201_spr", "NP0099_spr_update", "shiroko_robber", "CH0087_1"}

RawTokens == Concats(MaxChunks) \cup NamedTokens

(***************************************************************************)
(* SpecClean: _process_spine_remark applied once and twice to a remark.    *)
(* The remarks are every concatenation of at most MaxRemarkChunks          *)
(* fragments, and some whole remarks of the kinds the patterns are for.    *)
(***************************************************************************)
MaxRemarkChunks == 2

ZH_SWIMSUIT == <<"yong3", "zhuang1">>
ZH_WINTER == <<"dong1", "zhuang1">>
ZH_NO_SCARF == <<"wu2", "wei2", "jin1">>

RemarkFragments ==
    {ZH_INITIAL_POSE, ZH_POSE, ZH_VARIANT, ZH_SWIMSUIT, ZH_SUIT_FU, <<ZH_OLD>>, ZH_UPDATE,
     <<"(">>, <<")">>, <<FW_OPEN>>, <<FW_CLOSE>>, <<",">>, <<" ">>,
     TextOf("new"), TextOf("23.11.08"), <<ZH_OF, ZH_BEFORE>>}

RECURSIVE RemarkConcats(_)
RemarkConcats(n) ==
    IF n = 0 THEN {<<>>}
    ELSE LET shorter == RemarkConcats(n - 1)
         IN  shorter \cup {s \o f : s \in shorter, f \in RemarkFragments}

NamedRemarks ==
    {ZH_WINTER \o <<FW_OPEN>> \o ZH_NO_SCARF \o <<FW_CLOSE>>,
     ZH_SWIMSUIT \o <<",", "(">> \o ZH_NO_SCARF \o <<")">>,
     ZH_SWIMSUIT \o TextOf("(23.11.08") \o <<ZH_OF, ZH_BEFORE, ")">>,
     ZH_SWIMSUIT \o <<FW_OPEN>> \o TextOf("2023") \o <<ZH_YEAR, "1", ZH_MONTH, ZH_BEFORE, FW_CLOSE>>,
     TextOf("2023") \o <<ZH_YEAR, "1", ZH_MONTH, "8", ZH_DAY, " ">> \o ZH_REVISION \o ZH_SWIMSUIT,
     TextOf("23-1-08") \o ZH_UPDATE,
     <<FW_OPEN, ZH_ALREADY>> \o ZH_UPDATED_TO_RELEASE \o <<FW_CLOSE>> \o ZH_SWIMSUIT,
     <<"(">> \o ZH_UPDATED_TO_RELEASE \o <<")">>,
     ZH_SWIMSUIT \o ZH_FIXED \o <<ZH_EDITION>>,
     ZH_FIXED \o ZH_SWIMSUIT,
     ZH_DRESS \o ZH_HINA,
     ZH_DRESS \o ZH_AKO \o <<" ">> \o TextOf("Ver.2"),
     ZH_SWIMSUIT \o TextOf(" OLD"),
     ZH_SWIMSUIT \o TextOf(" fixed ver."),
     ZH_SWIMSUIT \o TextOf("new"),
     <<"li4", ZH_OLD, "hui4">>,
     ZH_SWIMSUIT \o TextOf("( )")}

Remarks == RemarkConcats(MaxRemarkChunks) \cup NamedRemarks

\* the base skin labels and display names the remark is compared with
BaseSkins == {<<>>, ZH_SWIMSUIT}
DisplayNames == {<<>>, ZH_SUIT_ZHUANG}

(***************************************************************************)
(* The remote API of the model: the spine assets it serves, and the        *)
(* character payloads it can answer with.                                  *)
(***************************************************************************)
SpineItem(id, name, type_, remark) ==
    JDict([id |-> id, name |-> name, type |-> type_, remark |-> remark])

\* /spines/<id>: the asset behind each spine id that exists
SpineDB ==
    <<SpineItem(JInt(1), JStr("CH0201_spr"), JStr("spr"), JStr("")),
      SpineItem(JInt(2), JStr("J_CH0201_spr"), JStr("spr"), JStr("")),
      SpineItem(JInt(3), JStr("CH0201_cn"), JStr("spr"), JStr("")),
      SpineItem(JInt(4), JStr("CH0202_spr"), JStr("sd"), JStr("")),
      SpineItem(JInt(5), JStr("_spr"), JStr("spr"), JStr("")),
      SpineItem(JInt(6), JStr("hoshino_spr"), JStr("spr"), JStr("")),
      SpineItem(JInt(7), JStr("CH0087_1"), JStr("spr"), JText(ZH_INITIAL_POSE)),
      SpineItem(JInt(8), JStr("CH0087_2"), JStr("spr"), JText(ZH_SWIMSUIT \o ZH_VARIANT))>>

SpineIds == DOMAIN SpineDB

SpineResponse(sid) == JDict([code |-> JInt(SUCCESS_CODE), data |-> SpineDB[sid]])

\* the ids of a spine list, as JSON
Ints(seq) == JList([i \in 1..Len(seq) |-> JInt(seq[i])])

NamedData(school, spine) ==
    [id |-> JInt(5), school |-> JInt(school),
     family_name |-> JStr("Sunaookami"), given_name |-> JStr("Shiroko"),
     family_name_jp |-> JStr("Sunaookami"), given_name_jp |-> JStr("Shiroko"),
     family_name_en |-> JStr("Sunaookami"), given_name_en |-> JStr("Shiroko"),
     family_name_kr |-> JNull, given_name_kr |-> JStr("Shiroko"),
     given_name_cn |-> JStr("Shiroko"),
     avatar |-> JStr("avatar.png"),
     voice |-> JList(<<JStr("clip")>>),
     spine |-> spine]

Envelope(data) == JDict([code |-> JInt(SUCCESS_CODE), data |-> data])

BodyNormal(spine) == Envelope(JDict(NamedData(1, spine)))

\* a character with name components in every language
BodyAllLanguages(skin, spine) ==
    Envelope(JDict(
        [id |-> JInt(87), school |-> JInt(1),
         family_name |-> JStr("Shalang"), given_name |-> JStr("Baizi"), skin |-> skin,
         family_name_cn |-> JStr("Shalang"), given_name_cn |-> JStr("Baizi"), skin_cn |-> skin,
         family_name_jp |-> JStr("Sunaookami"), given_name_jp |-> JStr("Shiroko"), skin_jp |-> skin,
         family_name_zh_tw |-> JStr("Shalang"), given_name_zh_tw |-> JStr("Baizi"), skin_zh_tw |-> skin,
         family_name_en |-> JStr("Sunaookami"), given_name_en |-> JStr("Shiroko"),
         family_name_kr |-> JStr("Seunaokami"), given_name_kr |-> JStr("Siroko"),
         spine |-> spine]))
BodyOfficial(spine) == Envelope(JDict(NamedData(OFFICIAL_SCHOOL, spine)))
BodyEasterEgg == Envelope(JDict([id |-> JInt(EASTER_EGG_ID), school |-> JInt(1), spine |-> Ints(<<1>>)]))
BodyNoNames == Envelope(JDict([id |-> JInt(5), spine |-> Ints(<<1>>)]))
BodyNoSpineKey == Envelope(JDict([id |-> JInt(5), school |-> JInt(1), given_name |-> JStr("Shiroko")]))
BodyNullSpine == Envelope(JDict(NamedData(1, JNull)))
BodyOfficialNullSpine == Envelope(JDict(NamedData(OFFICIAL_SCHOOL, JNull)))
BodyMixedSpine == Envelope(JDict(NamedData(1, JList(<<JStr("1"), JInt(1), JNull>>))))
BodyNullData == Envelope(JNull)
BodyEmptyData == Envelope(EmptyDict)
BodyListData == Envelope(JList(<<>>))
BodyCodeOnly == JDict([code |-> JInt(SUCCESS_CODE)])
BodyErrorEnvelope == JDict([code |-> JInt(4004), data |-> JNull, message |-> JStr("error")])
BodyNullCharacterDatas ==
    Envelope(JDict([id |-> JInt(5), given_name |-> JStr("Shiroko"), spine |-> Ints(<<1>>),
                    character_datas |-> JNull]))

\* a character with every source an identifier could be guessed from without a
\* spine asset: a voice clip, an avatar, a file-like Japanese given name and a
\* sub-data entry with a developer asset name
BodyFallbackSources ==
    Envelope(JDict(
        [id |-> JInt(5), school |-> JInt(1),
         family_name |-> JStr("Sunaookami"), given_name |-> JStr("Shiroko"),
         given_name_jp |-> JStr("CH0203_spr"),
         voice |-> JList(<<JDict([description |-> JStr("CH0201_voice")])>>),
         avatar |-> JStr("CH0202.png"),
         character_datas |-> JList(<<JDict([dev_name |-> JStr("CH0204_default")])>>),
         spine |-> Ints(<<>>)]))

\* a character whose data holds nothing but fields the cache cleaner removes
BodyDroppedFieldsOnly ==
    Envelope(JDict([avatar |-> JStr("avatar.png"), gallery |-> JList(<<>>)]))

\* every shape of answer to /students/<id>
TaskResponses ==
    {Resp404, RespNetworkError, RespHttpError} \cup
    {RespJson(b) : b \in
        {JNull, EmptyDict, JList(<<JInt(1)>>),
         BodyCodeOnly, BodyErrorEnvelope, BodyNullData, BodyEmptyData, BodyListData,
         BodyNullSpine, BodyOfficialNullSpine, BodyNoSpineKey, BodyMixedSpine,
         BodyEasterEgg, BodyNoNames, BodyNullCharacterDatas,
         BodyOfficial(Ints(<<>>)), BodyOfficial(Ints(<<1, 2>>)), BodyOfficial(Ints(<<3, 4>>)),
         BodyNormal(Ints(<<>>)), BodyNormal(Ints(<<1, 2>>)), BodyNormal(Ints(<<2, 1>>)),
         BodyNormal(Ints(<<3, 4>>)), BodyNormal(Ints(<<5>>)), BodyNormal(Ints(<<1, 9>>)),
         BodyAllLanguages(JStr(""), Ints(<<7>>)),
         BodyAllLanguages(JText(ZH_SWIMSUIT), Ints(<<7, 8>>))}}

\* what an earlier run can have left in cache/students/<id>.json (JNull: no file)
TaskCacheEntries ==
    {JNull, _clean_student_data(BodyNormal(Ints(<<1, 2>>))),
     _clean_student_data(BodyOfficial(Ints(<<1, 2>>))), BodyNullData}

\* a payload with the fields the extractor needs and nothing else
BodyCompact(spine) ==
    Envelope(JDict([id |-> JInt(5), school |-> JInt(1), given_name |-> JStr("Shiroko"),
                    spine |-> spine]))

\* the answers of the batch runs: a failed fetch, a payload whose data is null,
\* and a payload with two forms, a merged asset and a rejected asset
BatchResponses ==
    {Resp404, RespJson(BodyNullData), RespJson(BodyCompact(Ints(<<6, 2, 1, 3>>)))}

\* the caches of the batch runs: empty, or every student cached by an earlier run
BatchCaches(n) ==
    {[id \in 1..n |-> JNull], [id \in 1..n |-> _clean_student_data(BodyCompact(Ints(<<1, 2>>)))]}

TaskCaches == [1..1 -> TaskCacheEntries]

EmptySpineCache == [sid \in SpineIds |-> JNull]
FullSpineCache == [sid \in SpineIds |-> SpineResponse(sid)]

(***************************************************************************)
(* APIClient.fetch_spine_data under asyncio.gather: every lookup of one    *)
(* gather sees the cache as it was when the gather started.                *)
(***************************************************************************)
\* the request for spine sid succeeds
SpineServed(sid, down) == sid \in SpineIds /\ sid \notin down

\* the data part of fetch_spine_data's result (JNull: None)
fetch_spine_data(sid, cache, down) ==
    IF sid \in DOMAIN cache /\ Truthy(cache[sid])
    THEN IF cache[sid].t = "dict" /\ HasKey(cache[sid], "data")
         THEN cache[sid].v["data"] ELSE cache[sid]
    ELSE IF SpineServed(sid, down) THEN SpineResponse(sid).v["data"] ELSE JNull

SpineCacheMiss(sid, cache) == ~(sid \in DOMAIN cache /\ Truthy(cache[sid]))

\* mutant: one failed fetch loses the results of the whole gather
AllOrNothing(seq) == IF \E k \in 1..Len(seq) : seq[k] = JNull THEN <<>> ELSE seq

\* [data for data, error in spine_results_raw if data is not None]
RECURSIVE NotNone(_)
NotNone(seq) ==
    IF seq = <<>> THEN <<>>
    ELSE IF Head(seq) = JNull THEN NotNone(Tail(seq))
    ELSE <<Head(seq)>> \o NotNone(Tail(seq))

\* [sid for sid in spine_ids if isinstance(sid, int)], for a list, str or dict
RECURSIVE IntsOf(_)
IntsOf(seq) ==
    IF seq = <<>> THEN <<>>
    ELSE IF Head(seq).t = "int" THEN <<Head(seq).v>> \o IntsOf(Tail(seq))
    ELSE IntsOf(Tail(seq))

\* json_data.get("data", {}).get("spine", []) and the loop over it raise
SpineIdsRaise(json_data) ==
    LET data == Get(json_data, "data", EmptyDict)
    IN  IF data.t # "dict" THEN TRUE                                \* AttributeError
        ELSE Get(data, "spine", JList(<<>>)).t \in {"null", "int"}  \* TypeError

\* the int ids of the spine list (a str or a dict iterates over no int)
SpineIdsOf(json_data) ==
    LET spine == Get(Get(json_data, "data", EmptyDict), "spine", JList(<<>>))
    IN  IF spine.t = "list" THEN IntsOf(spine.v) ELSE <<>>

(***************************************************************************)
(* Sentinel.check_updates                                                  *)
(***************************************************************************)
MAX_CONCURRENT_REQUESTS == 3

NumStudents == 2

\* need_update of Sentinel.check_updates, from the globals startup has set
check_updates(local_max_student_id, local_max_spine_id, remote_max_student_id, remote_max_spine_id) ==
    remote_max_student_id > local_max_student_id \/ remote_max_spine_id > local_max_spine_id

VARIABLES
    nraw,               \* SpecNorm: the raw token
    nout,               \* SpecNorm: <<normalize(nraw), normalize(normalize(nraw))>>, as far as computed
    pjson,              \* SpecParse: the character payload given to parse
    pspines,            \* SpecParse: the spine assets given to parse
    pres,               \* SpecParse: what parse returned (JNull before the call)
    pspines2,           \* SpecOrder: the same spine assets in another order
    pres2,              \* SpecOrder: what parse returned for them (JNull before the call)
    lremark,            \* SpecLabel: the remark of a spine asset
    lskin,              \* SpecLabel: the character's base skin label
    lname,              \* SpecLabel: the character's display name
    lout,               \* SpecLabel: <<clean(lremark), clean(clean(lremark))>>, as far as computed
    lnames,             \* SpecLabel: the names dict of parse, <<>> before it is built
    w_forms,            \* SpecWrite: the forms given to CsvWriter.write
    w_skipped,          \* SpecWrite: the records given to CsvWriter.write_skipped
    unwritable,         \* SpecWrite: the paths whose open raises IOError
    files,              \* SpecWrite: the output files and what each holds
    attempts,           \* SpecWrite: the paths opened so far, in order
    error_log,          \* SpecWrite: the streams whose loss logging.error reported
    writer_pc,          \* SpecWrite: "forms", "skipped", "done" or "raised"
    check_mode,         \* main's argument: report whether an update is needed and return
    test_id,            \* main's argument: the one id of the test mode, JNull for None
    FINAL_STUDENT_ID,   \* the global startup sets from the API
    FINAL_SPINE_ID,     \* the global startup sets from the API
    student_ids,        \* the ids main processes
    need_update,        \* main: refresh_students (TRUE) or get_all_student_forms_from_cache
    max_concurrent,     \* the size of the semaphore
    state_file,         \* cache/state.json
    api,                \* the API's answer to /students/<id>
    spine_down,         \* the spine ids whose request fails
    student_cache,      \* cache/students/<id>.json
    spine_cache,        \* cache/spines/<id>.json
    sem,                \* free admission slots
    pc,                 \* where each process_student_id task stands
    json_data,          \* per task
    fetch_reason,       \* per task
    from_cache,         \* per task
    spine_results,      \* per task
    spine_pending,      \* per task: the spine ids of its requests in flight
    delays,             \* per task: the number of asyncio.sleep(delay) done
    ret,                \* per task: what process_student_id returned (JNull before)
    student_req_count,
    spine_req_count,
    net_students,       \* the requests /students/<id> the API received, per id
    net_spines,         \* the number of requests /spines/<id> the API received
    all_student_forms,  \* collected in completion order
    skipped_records,
    main_pc,            \* "crawl", "sort", "written" or "aborted"; "test" and "check" in
                        \* those modes, "returned" when main has left from them
    out_forms,          \* what CsvWriter.write was given
    out_skipped         \* what CsvWriter.write_skipped was given

normVars == <<nraw, nout>>
parseVars == <<pjson, pspines, pres, pspines2, pres2>>
labelVars == <<lremark, lskin, lname, lout, lnames>>
writeVars == <<w_forms, w_skipped, unwritable, files, attempts, error_log, writer_pc>>
pureVars == <<normVars, parseVars, labelVars, writeVars>>
configVars == <<check_mode, test_id, FINAL_STUDENT_ID, FINAL_SPINE_ID, student_ids, need_update, max_concurrent, api, spine_down>>
taskVars == <<pc, json_data, fetch_reason, from_cache, spine_results, spine_pending, delays, ret>>
netVars == <<net_students, net_spines>>
mainVars == <<state_file, student_cache, spine_cache, sem, student_req_count, spine_req_count,
              all_student_forms, skipped_records, main_pc, out_forms, out_skipped>>

vars == <<pureVars, configVars, taskVars, netVars, mainVars>>

\* the variables of the other specifications, at rest
NormIdle == nraw = "-" /\ nout = <<>>
ParseIdle == pjson = JNull /\ pspines = <<>> /\ pres = JNull /\ pspines2 = <<>> /\ pres2 = JNull
LabelIdle == lremark = <<>> /\ lskin = <<>> /\ lname = <<>> /\ lout = <<>> /\ lnames = <<>>
WriteIdle ==
    /\ w_forms = <<>> /\ w_skipped = <<>> /\ unwritable = {} /\ files = <<>>
    /\ attempts = <<>> /\ error_log = {} /\ writer_pc = "idle"
RunIdle ==
    /\ check_mode = FALSE /\ test_id = JNull
    /\ FINAL_STUDENT_ID = 0 /\ FINAL_SPINE_ID = 0
    /\ student_ids = {} /\ need_update = FALSE /\ max_concurrent = 0
    /\ state_file = [max_student_id |-> 0, max_spine_id |-> 0]
    /\ api = <<>> /\ spine_down = {} /\ student_cache = <<>> /\ spine_cache = <<>>
    /\ sem = 0 /\ pc = <<>> /\ json_data = <<>> /\ fetch_reason = <<>> /\ from_cache = <<>>
    /\ spine_results = <<>> /\ spine_pending = <<>> /\ delays = <<>> /\ ret = <<>>
    /\ net_students = <<>> /\ net_spines = 0
    /\ student_req_count = 0 /\ spine_req_count = 0
    /\ all_student_forms = <<>> /\ skipped_records = <<>>
    /\ main_pc = "idle" /\ out_forms = <<>> /\ out_skipped = <<>>

(***************************************************************************)
(* SpecNorm                                                                *)
(***************************************************************************)
InitNorm ==
    /\ nraw \in RawTokens
    /\ nout = <<>>
    /\ ParseIdle /\ LabelIdle /\ WriteIdle /\ RunIdle

\* one more application of the normalizer to its previous result
NormalizeCall ==
    /\ nraw # "-"
    /\ Len(nout) < 2
    /\ nout' = Append(nout, _normalize_file_id(IF nout = <<>> THEN nraw ELSE nout[Len(nout)]))
    /\ UNCHANGED <<nraw, parseVars, labelVars, writeVars, configVars, taskVars, netVars, mainVars>>

NextNorm == NormalizeCall

SpecNorm == InitNorm /\ [][NextNorm]_vars

(***************************************************************************)
(* Properties of the normalizer, checked under SpecNorm                    *)
(***************************************************************************)
\* w is CH or NP in any case followed by four digits
IsStandardWindow(w) ==
    /\ Len(w) = 6
    /\ upper(SubSeq(w, 1, 2)) \in {"CH", "NP"}
    /\ \A k \in 3..6 : Char(w, k) \in DigitChars

\* where the raw token holds such a substring
StandardWindows(s) == {i \in 1..(Len(s) - 5) : IsStandardWindow(SubSeq(s, i, i + 5))}

\* C9: the normalizer is idempotent: applied to its own result it returns
\* that result, normalize(normalize(x)) = normalize(x), for every raw token x.
C9_Idempotent == Len(nout) = 2 => nout[2] = nout[1]

\* C10: when the raw token holds a substring CH or NP (in any case) followed
\* by four digits, the normalizer returns that substring (the leftmost one)
\* upper-cased and nothing else; "J_CH0201_spr" gives "CH0201",
\* "NP0099_spr_update" gives "NP0099" and "shiroko_robber" stays as it is.
C10_StandardPattern ==
    Len(nout) >= 1 =>
        /\ StandardWindows(nraw) # {} =>
              /\ \E i \in StandardWindows(nraw) :
                    /\ \A j \in StandardWindows(nraw) : i <= j
                    /\ nout[1] = upper(SubSeq(nraw, i, i + 5))
              /\ Len(nout[1]) = 6
        /\ nraw = "J_CH0201_spr" => nout[1] = "CH0201"
        /\ nraw = "NP0099_spr_update" => nout[1] = "NP0099"
        /\ nraw = "shiroko_robber" => nout[1] = "shiroko_robber"

\* a lower-case match behind a prefix has been upper-cased
C10_Witness ==
    /\ nraw = "J_np0201"
    /\ nout # <<>>
    /\ nout[1] = "NP0201"

\* s without the leading p, compared without regard to case, when s starts with it
WithoutLeading(s, p) ==
    IF Len(s) >= Len(p) /\ lower(SubSeq(s, 1, Len(p))) = lower(p)
    THEN SubSeq(s, Len(p) + 1, Len(s)) ELSE s

\* s without the trailing p, compared exactly, when s ends with it
WithoutTrailing(s, p) ==
    IF Len(s) >= Len(p) /\ SubSeq(s, Len(s) - Len(p) + 1, Len(s)) = p
    THEN SubSeq(s, 1, Len(s) - Len(p)) ELSE s

\* s without the one prefix of "J_", "new_", "old_" it starts with, if any
WithoutOnePrefix(s) ==
    IF WithoutLeading(s, "J_") # s THEN WithoutLeading(s, "J_")
    ELSE IF WithoutLeading(s, "new_") # s THEN WithoutLeading(s, "new_")
    ELSE WithoutLeading(s, "old_")

\* s without the one suffix of "_spr", "_spr_update" it ends with, if any
WithoutOneSuffix(s) ==
    IF WithoutTrailing(s, "_spr_update") # s THEN WithoutTrailing(s, "_spr_update")
    ELSE WithoutTrailing(s, "_spr")

\* the raw token was normalized and holds no CH/NP pattern
ManualBranch == Len(nout) >= 1 /\ StandardWindows(nraw) = {}

\* C21 as stated: when the raw token has no CH/NP pattern, the normalizer
\* removes at most one of the leading prefixes "J_", "new_", "old_" (without
\* regard to case), removes a trailing "_spr" or "_spr_update", and returns the
\* rest lower-cased (the token taken without the whitespace around it)
C21_AtMostOnePrefix ==
    ManualBranch => nout[1] = lower(WithoutOneSuffix(WithoutOnePrefix(strip(nraw))))

\* C21 amended: when the raw token has no CH/NP pattern, the normalizer trims
\* the whitespace around it, removes a leading "J_", then a leading "new_",
\* then a leading "old_" (each without regard to case, each at most once, so
\* up to three prefixes in that order), then a trailing "_spr" and then a
\* trailing "_spr_update" (each exactly as written, each at most once), and
\* returns the rest lower-cased
C21_PrefixesInTurn ==
    ManualBranch =>
        nout[1] = lower(WithoutTrailing(WithoutTrailing(
                      WithoutLeading(WithoutLeading(WithoutLeading(strip(nraw), "J_"), "new_"), "old_"),
                      "_spr"), "_spr_update"))

\* two stacked prefixes and a suffix are all removed
C21_Witness ==
    /\ nraw = "J_new_shiroko"
    /\ nout # <<>>
    /\ nout[1] = "shiroko"

(***************************************************************************)
(* SpecLabel: the skin labels and display names parse derives from one     *)
(* remark                                                                  *)
(***************************************************************************)
\* a character whose languages differ in what they provide: both name parts
\* and a skin, the given name only, no skin, no name
LabelData(skin) ==
    JDict([family_name |-> JStr("Sunaookami"), given_name |-> JStr("Shiroko"), skin |-> JText(skin),
           given_name_cn |-> JStr("Shiroko"), skin_cn |-> JText(skin),
           family_name_jp |-> JStr("Sunaookami"), given_name_jp |-> JStr("Shiroko"), skin_jp |-> JNull,
           skin_zh_tw |-> JText(ZH_SWIMSUIT),
           family_name_en |-> JStr("Sunaookami"), given_name_en |-> JStr("Shiroko"),
           given_name_kr |-> JStr("Shiroko")])

InitLabel ==
    /\ lremark \in Remarks
    /\ lskin \in BaseSkins
    /\ lname \in DisplayNames
    /\ lout = <<>>
    /\ lnames = <<>>
    /\ NormIdle /\ ParseIdle /\ WriteIdle /\ RunIdle

\* one more application of the cleaner to its previous result
CleanCall ==
    /\ Len(lout) < 2
    /\ lout' = Append(lout, _process_spine_remark(IF lout = <<>> THEN lremark ELSE lout[Len(lout)],
                                                  lskin, lname))
    /\ UNCHANGED <<lremark, lskin, lname, lnames, normVars, parseVars, writeVars, configVars,
                   taskVars, netVars, mainVars>>

\* names = {key: self._build_formatted_name(data, key, spine_remark) for key in self._LANG_CONFIG}
BuildNames ==
    /\ lnames = <<>>
    /\ lnames' = [key \in LangKeys |-> _build_formatted_name(LabelData(lskin), key, JText(lremark))]
    /\ UNCHANGED <<lremark, lskin, lname, lout, normVars, parseVars, writeVars, configVars,
                   taskVars, netVars, mainVars>>

NextLabel == CleanCall \/ BuildNames

SpecLabel == InitLabel /\ [][NextLabel]_vars

\* C12: the remark cleaner is idempotent: cleaning its own output with the same
\* base skin label and display name returns that output
C12_CleanIdempotent == Len(lout) = 2 => lout[2] = lout[1]

\* C13: the cleaner returns the empty string for a null or empty remark and for
\* a remark that is the default-pose marker alone, whatever the base skin label
\* and the display name
C13_EmptyForNoRemarkAndInitialPose ==
    (lout # <<>> /\ lremark \in {<<>>, ZH_INITIAL_POSE}) => lout[1] = <<>>

C13_Witness == lout # <<>> /\ lremark = ZH_INITIAL_POSE /\ lskin = <<>> /\ lname = <<>> /\ lout[1] = <<>>

\* the remark after the rewrite pipeline, before the comparison with the base
\* skin label and the display name (neither is given)
FullyCleaned == _process_spine_remark(lremark, <<>>, <<>>)

\* C22: when the cleaned remark equals the (non-empty) base skin label or the
\* (non-empty) display name, the cleaner returns the empty string; so a
\* non-empty result of the cleaner never equals the base skin label or the
\* display name it was given
C22_RedundantLabelSuppressed ==
    lout # <<>> =>
        /\ (lskin # <<>> /\ FullyCleaned = lskin) => lout[1] = <<>>
        /\ (lname # <<>> /\ FullyCleaned = lname) => lout[1] = <<>>
        /\ lout[1] # <<>> => (lout[1] # lskin /\ lout[1] # lname /\ lout[1] = FullyCleaned)

\* a remark that the rewrite rules turn into the display name
C22_Witness ==
    /\ lout # <<>>
    /\ lremark = ZH_SUIT_FU
    /\ FullyCleaned = ZH_SUIT_ZHUANG
    /\ lname = ZH_SUIT_ZHUANG
    /\ lskin = ZH_SWIMSUIT
    /\ lout[1] = <<>>

\* the base name and the base skin label of LabelData in each language
LabelBaseNames ==
    [key \in LangKeys |->
        IF key \in {"full_name", "name", "jp", "en"} THEN TextOf("Sunaookami Shiroko")
        ELSE IF key \in {"cn", "kr"} THEN TextOf("Shiroko")
        ELSE <<>>]

LabelBaseSkins ==
    [key \in LangKeys |->
        IF key \in {"full_name", "cn"} THEN lskin
        ELSE IF key = "tw" THEN ZH_SWIMSUIT
        ELSE <<>>]

\* the languages configured with a suffix
SuffixedLanguages == {"full_name", "cn", "jp", "tw"}

\* C20: a language without a suffix gets the base name only, whatever the
\* remark; a language with a suffix gets the base skin label and the cleaned
\* remark joined with a comma (base skin first, absent parts omitted) and
\* appended in full-width parentheses when non-empty; an empty base name gives
\* the empty string
C20_FormatLanguageName ==
    lnames # <<>> =>
        \A key \in LangKeys :
            LET base == LabelBaseNames[key]
                skin == LabelBaseSkins[key]
                cleaned == _process_spine_remark(lremark, skin, base)
                suffix == IF skin # <<>> /\ cleaned # <<>> THEN skin \o <<",">> \o cleaned
                          ELSE IF skin # <<>> THEN skin ELSE cleaned
            IN  lnames[key] =
                    IF base = <<>> THEN <<>>
                    ELSE IF key \notin SuffixedLanguages \/ suffix = <<>> THEN base
                    ELSE base \o <<FW_OPEN>> \o suffix \o <<FW_CLOSE>>

\* a swimsuit character with a cleaned remark: both parts in the suffix of one
\* language, none in the name of another
C20_Witness ==
    /\ lnames # <<>>
    /\ lskin = ZH_SWIMSUIT
    /\ lremark = ZH_WINTER \o <<FW_OPEN>> \o ZH_NO_SCARF \o <<FW_CLOSE>>
    /\ lnames["full_name"] = TextOf("Sunaookami Shiroko") \o <<FW_OPEN>> \o ZH_SWIMSUIT \o <<",">>
                                \o ZH_WINTER \o <<",">> \o ZH_NO_SCARF \o <<FW_CLOSE>>
    /\ lnames["en"] = TextOf("Sunaookami Shiroko")
    /\ lnames["tw"] = <<>>

(***************************************************************************)
(* SpecWrite: the two writers of main, on every combination of empty and   *)
(* non-empty data and of unwritable paths                                  *)
(***************************************************************************)
OutputPaths ==
    {OUTPUT_FILENAME, _get_alternative_filename(OUTPUT_FILENAME),
     SKIPPED_FILENAME, _get_alternative_filename(SKIPPED_FILENAME)}

InitWrite ==
    /\ w_forms \in {<<>>, <<"CH0087">>, <<"CH0087", "CH0201">>}
    /\ w_skipped \in {<<>>, <<"404">>}
    /\ unwritable \in SUBSET OutputPaths
    /\ files = [p \in OutputPaths |-> <<>>]
    /\ attempts = <<>>
    /\ error_log = {}
    /\ writer_pc = "forms"
    /\ NormIdle /\ ParseIdle /\ LabelIdle /\ RunIdle

\* what a writer's call leaves behind
Written(filename, data) ==
    LET r == WriterCall(filename, data, unwritable)
    IN  /\ files' = [p \in OutputPaths |-> IF <<p>> = r.written THEN data ELSE files[p]]
        /\ attempts' = attempts \o r.attempts
        /\ error_log' = IF r.failed THEN error_log \cup {filename} ELSE error_log

\* writer = CsvWriter(OUTPUT_FILENAME); writer.write(all_student_forms)
WriteForms ==
    /\ writer_pc = "forms"
    /\ Written(OUTPUT_FILENAME, w_forms)
    /\ writer_pc' = IF WriterCall(OUTPUT_FILENAME, w_forms, unwritable).raised
                    THEN "raised" ELSE "skipped"
    /\ UNCHANGED <<w_forms, w_skipped, unwritable, normVars, parseVars, labelVars, configVars,
                   taskVars, netVars, mainVars>>

\* skipped_writer = CsvWriter(SKIPPED_FILENAME); skipped_writer.write_skipped(skipped_records)
WriteSkipped ==
    /\ writer_pc = "skipped"
    /\ Written(SKIPPED_FILENAME, w_skipped)
    /\ writer_pc' = IF WriterCall(SKIPPED_FILENAME, w_skipped, unwritable).raised
                    THEN "raised" ELSE "done"
    /\ UNCHANGED <<w_forms, w_skipped, unwritable, normVars, parseVars, labelVars, configVars,
                   taskVars, netVars, mainVars>>

NextWrite == WriteForms \/ WriteSkipped

SpecWrite == InitWrite /\ [][NextWrite]_vars

\* how often path p was opened
Opened(p) == Cardinality({k \in 1..Len(attempts) : attempts[k] = p})

\* the state of one output stream after its writer has run: at most two
\* attempts, the alternate name tried once exactly when the primary failed,
\* the data in the first writable of the two, the loss logged when both failed
StreamSettled(filename, data) ==
    LET primary == filename
        alternate == _get_alternative_filename(filename)
    IN  /\ Opened(primary) = (IF data = <<>> THEN 0 ELSE 1)
        /\ Opened(alternate) = (IF data # <<>> /\ primary \in unwritable THEN 1 ELSE 0)
        /\ files[primary] = (IF primary \notin unwritable THEN data ELSE <<>>)
        /\ files[alternate] = (IF primary \in unwritable /\ alternate \notin unwritable
                               THEN data ELSE <<>>)
        /\ filename \in error_log <=>
              (data # <<>> /\ primary \in unwritable /\ alternate \in unwritable)

MaxSpines == 2

ParseSpineIds == {JNull, JInt(1), JInt(2)}

\* accepted names (two pairs that normalize alike), rejected names, a name that
\* normalizes to nothing, and no name
ParseSpineNames ==
    {JStr("CH0201_spr"), JStr("J_ch0201"), JStr("hoshino_spr"), JStr("new_hoshino"),
     JStr("CH0201_cn"), JStr("_spr"), JNull}

ParseSpineItems ==
    {SpineItem(id, name, JStr("spr"), JStr("")) : id \in ParseSpineIds, name \in ParseSpineNames}
    \cup {SpineItem(id, name, JStr("sd"), JStr("")) :
            id \in {JInt(1), JInt(2)}, name \in {JStr("CH0201_spr"), JStr("hoshino_toschool")}}
    \cup {SpineItem(JInt(1), JStr("CH0201_spr"), JNull, JStr("")), EmptyDict,
          SpineItem(JInt(2), JStr("Minori_cn"), JStr("spr"), JStr(""))}

ParsePayloads ==
    {BodyNormal(Ints(<<>>)), BodyOfficial(Ints(<<>>)), BodyEasterEgg, BodyNoNames,
     BodyNullData, BodyEmptyData, BodyCodeOnly, BodyFallbackSources, BodyDroppedFieldsOnly}

RECURSIVE ListsUpTo(_, _)
ListsUpTo(S, n) ==
    IF n = 0 THEN {<<>>}
    ELSE LET shorter == ListsUpTo(S, n - 1)
         IN  shorter \cup {Append(l, x) : l \in shorter, x \in S}

InitParse ==
    /\ pjson \in ParsePayloads
    /\ pspines \in ListsUpTo(ParseSpineItems, MaxSpines)
    /\ pres = JNull
    /\ pspines2 = <<>>
    /\ pres2 = JNull
    /\ NormIdle /\ LabelIdle /\ WriteIdle /\ RunIdle

\* parser.parse(json_data, student_id, spine_results), for student id 5
ParseCall ==
    /\ pjson # JNull
    /\ pres = JNull
    /\ pres' = parse(pjson, 5, pspines)
    /\ UNCHANGED <<pjson, pspines, pspines2, pres2, normVars, labelVars, writeVars, configVars,
                   taskVars, netVars, mainVars>>

NextParse == ParseCall

SpecParse == InitParse /\ [][NextParse]_vars

(***************************************************************************)
(* Properties of parse, checked under SpecParse                            *)
(***************************************************************************)
\* the payload passed the character-level gate, and parse has returned
ParseRanLoop == pres # JNull /\ _validate_and_get_skip_reason(pjson) = JNull

\* the identifier of asset i (for an asset with a name)
IdentOf(i) == _normalize_file_id(pspines[i].v["name"].v)

\* the assets of the list that the spine rules reject
RejectedAssets == {i \in 1..Len(pspines) : _get_spine_skip_reason(pspines[i]) # JNull}

\* the assets that the spine rules accept and that normalize to an identifier
AcceptedAssets == {i \in (1..Len(pspines)) \ RejectedAssets : IdentOf(i) # ""}

\* the accepted assets that share the identifier of asset i
SameIdent(i) == {j \in AcceptedAssets : IdentOf(j) = IdentOf(i)}

\* C1: accepted assets of one character that normalize to the same
\* identifier give exactly one Form for that identifier; its spine_id is the
\* largest asset id among them (a missing id counts as 0); the losing assets
\* add no Form and no SkipRecord: there is one Form per identifier and one
\* SkipRecord per rejected asset.
C1_MergeKeepsLargestSpineId ==
    ParseRanLoop =>
        /\ \A i \in AcceptedAssets :
              LET fs == {k \in 1..Len(pres.forms) : pres.forms[k].file_id = IdentOf(i)}
              IN  /\ Cardinality(fs) = 1
                  /\ \A k \in fs :
                        /\ \E j \in SameIdent(i) : pres.forms[k].spine_id = GetOrNone(pspines[j], "id")
                        /\ \A j \in SameIdent(i) :
                              OrZero(GetOrNone(pspines[j], "id")) <= OrZero(pres.forms[k].spine_id)
        /\ Len(pres.forms) = Cardinality({IdentOf(i) : i \in AcceptedAssets})
        /\ Len(pres.skipped) = Cardinality(RejectedAssets)

\* two accepted assets with one identifier, the larger id first: the one Form
\* carries the larger id and nothing else was returned
C1_Witness ==
    /\ ParseRanLoop
    /\ Len(pspines) = 2
    /\ AcceptedAssets = {1, 2}
    /\ IdentOf(1) = IdentOf(2)
    /\ pspines[1].v["name"] # pspines[2].v["name"]
    /\ pspines[1].v["id"] = JInt(2) /\ pspines[2].v["id"] = JInt(1)
    /\ Len(pres.forms) = 1 /\ pres.forms[1].spine_id = JInt(2)
    /\ pres.skipped = <<>>

\* asset i of the list is not of the accepted sprite type
NotSprite(i) == GetOrNone(pspines[i], "type") # JStr("spr")

\* C3: an asset whose type is not "spr" never yields a Form, even when its
\* name holds a CH/NP identifier: every Form comes from an asset of type "spr"
\* (its id and the identifier of its name), and every asset of another type
\* is in the skipped records with a reason.
C3_OnlySpritesYieldForms ==
    pres # JNull =>
        /\ \A k \in 1..Len(pres.forms) :
              \E i \in 1..Len(pspines) :
                 /\ ~NotSprite(i)
                 /\ Truthy(GetOrNone(pspines[i], "name"))
                 /\ pres.forms[k].file_id = IdentOf(i)
                 /\ pres.forms[k].spine_id = GetOrNone(pspines[i], "id")
        /\ ParseRanLoop =>
              \A i \in 1..Len(pspines) :
                 NotSprite(i) =>
                    \E k \in 1..Len(pres.skipped) :
                       /\ pres.skipped[k].spine_id = GetOrNone(pspines[i], "id")
                       /\ pres.skipped[k].spine_name = GetOrNone(pspines[i], "name")
                       /\ pres.skipped[k].reason \in
                             {REASON_NO_NAME, ReasonType(GetOrNone(pspines[i], "type"))}

\* the only asset has type "sd" and a name that holds a CH identifier: no
\* Form, one SkipRecord with the type reason
C3_Witness ==
    /\ ParseRanLoop
    /\ Len(pspines) = 1
    /\ GetOrNone(pspines[1], "type") = JStr("sd")
    /\ Truthy(GetOrNone(pspines[1], "name"))
    /\ StandardWindows(pspines[1].v["name"].v) # {}
    /\ pres.forms = <<>>
    /\ Len(pres.skipped) = 1
    /\ pres.skipped[1].reason = ReasonType(JStr("sd"))

\* the identifier a fallback pass would take from each source of the payload,
\* in the order of priority: the voice-clip descriptions, the avatar URL, the
\* Japanese given name when it ends like a pose file, the developer asset name
\* of the first sub-data entry
FallbackCandidates(data) ==
    LET voice == Get(data, "voice", JList(<<>>))
        avatar == Get(data, "avatar", JStr(""))
        given_jp == Get(data, "given_name_jp", JStr(""))
        subs == Get(data, "character_datas", JList(<<>>))
    IN  <<IF voice.t = "list" /\ voice.v # <<>> /\ voice.v[1].t = "dict"
             /\ GetOrNone(voice.v[1], "description").t = "str"
             /\ StandardWindows(voice.v[1].v["description"].v) # {}
          THEN _normalize_file_id(voice.v[1].v["description"].v) ELSE "",
          IF avatar.t = "str" /\ StandardWindows(avatar.v) # {}
          THEN _normalize_file_id(avatar.v) ELSE "",
          IF given_jp.t = "str" /\ endswith(given_jp.v, "_spr")
          THEN _normalize_file_id(given_jp.v) ELSE "",
          IF subs.t = "list" /\ subs.v # <<>> /\ subs.v[1].t = "dict"
             /\ GetOrNone(subs.v[1], "dev_name").t = "str"
          THEN _normalize_file_id(removesuffix(subs.v[1].v["dev_name"].v, "_default")) ELSE "">>

\* the first non-empty candidate, "" when every source is empty
FallbackIdentifier(data) ==
    LET c == FallbackCandidates(data)
        found == {k \in 1..Len(c) : c[k] # ""}
    IN  IF found = {} THEN "" ELSE c[CHOOSE k \in found : \A j \in found : k <= j]

\* parse ran its loop over the assets and none of them gave a Form
NoFormFromSpines == ParseRanLoop /\ AcceptedAssets = {}

NoName(i) == ~Truthy(pspines[i]) \/ ~Truthy(GetOrNone(pspines[i], "name"))

\* the lower-cased name of asset i holds the keyword kw, ends with the suffix sf
HoldsKeyword(i, kw) == contains(lower(pspines[i].v["name"].v), kw)
EndsWithSuffix(i, sf) == endswith(lower(pspines[i].v["name"].v), sf)

\* r is the reason of the first rule, in the order no-name, type, infix
\* keyword, suffix, that rejects asset i
FirstRuleGives(i, r) ==
    IF NoName(i) THEN r = REASON_NO_NAME
    ELSE IF NotSprite(i) THEN r = ReasonType(GetOrNone(pspines[i], "type"))
    ELSE IF \E kw \in {"toschool", "minori", "ui_raidboss"} : HoldsKeyword(i, kw)
    THEN \/ HoldsKeyword(i, "toschool") /\ r = ReasonKeyword("toschool")
         \/ ~HoldsKeyword(i, "toschool") /\ HoldsKeyword(i, "minori") /\ r = ReasonKeyword("minori")
         \/ ~HoldsKeyword(i, "toschool") /\ ~HoldsKeyword(i, "minori") /\ r = ReasonKeyword("ui_raidboss")
    ELSE \E k \in 1..Len(SPINE_SUFFIXES_TO_SKIP) :
            /\ EndsWithSuffix(i, SPINE_SUFFIXES_TO_SKIP[k])
            /\ \A j \in 1..(k - 1) : ~EndsWithSuffix(i, SPINE_SUFFIXES_TO_SKIP[j])
            /\ r = ReasonSuffix(SPINE_SUFFIXES_TO_SKIP[k])

\* some rule rejects asset i
RuleRejects(i) ==
    \/ NoName(i)
    \/ NotSprite(i)
    \/ \E kw \in {"toschool", "minori", "ui_raidboss"} : HoldsKeyword(i, kw)
    \/ \E k \in 1..Len(SPINE_SUFFIXES_TO_SKIP) : EndsWithSuffix(i, SPINE_SUFFIXES_TO_SKIP[k])

\* the place of asset i among the rejected assets of the list
RejectedRank(i) == Cardinality({j \in 1..i : RuleRejects(j)})

\* C25: every spine asset of the list falls in exactly one of three cases: it
\* is rejected by the first matching rule in the order no-name, type, infix
\* keyword, suffix and yields exactly one SkipRecord with its id and that
\* reason; or its normalized identifier is empty and it yields no record at
\* all; or it yields a candidate Form.  Processing goes on with the next asset:
\* the SkipRecords are those of the rejected assets, one each, in list order
C25_OneCasePerAsset ==
    ParseRanLoop =>
        /\ Len(pres.skipped) = Cardinality({i \in 1..Len(pspines) : RuleRejects(i)})
        /\ \A i \in 1..Len(pspines) :
              IF RuleRejects(i)
              THEN /\ pres.skipped[RejectedRank(i)].spine_id = GetOrNone(pspines[i], "id")
                   /\ pres.skipped[RejectedRank(i)].spine_name = GetOrNone(pspines[i], "name")
                   /\ pres.skipped[RejectedRank(i)].student_id = 5
                   /\ FirstRuleGives(i, pres.skipped[RejectedRank(i)].reason)
              ELSE IF IdentOf(i) = "" THEN TRUE
              ELSE \E k \in 1..Len(pres.forms) : pres.forms[k].file_id = IdentOf(i)
        /\ \A k \in 1..Len(pres.forms) :
              /\ pres.forms[k].file_id # ""
              /\ \E i \in 1..Len(pspines) :
                    ~RuleRejects(i) /\ IdentOf(i) = pres.forms[k].file_id
        /\ pres.reason = JNull <=> (pres.forms # <<>> \/ pres.skipped # <<>>)

\* an asset that two rules reject is reported by the earlier one, and the
\* asset after it still gives its Form
C25_Witness ==
    /\ ParseRanLoop
    /\ Len(pspines) = 2
    /\ pspines[1] = SpineItem(JInt(2), JStr("Minori_cn"), JStr("spr"), JStr(""))
    /\ ~RuleRejects(2) /\ IdentOf(2) = "hoshino"
    /\ Len(pres.skipped) = 1
    /\ pres.skipped[1].reason = ReasonKeyword("minori")
    /\ pres.skipped[1].spine_id = JInt(2)
    /\ Len(pres.forms) = 1 /\ pres.forms[1].file_id = "hoshino"

(***************************************************************************)
(* SpecOrder: parse on a list of assets and on a reordering of it.  The    *)
(* assets differ in id, and the two names of one identifier in remark, so  *)
(* that the Form tells which asset it was built from.                      *)
(***************************************************************************)
OrderSpineIds == {JNull, JInt(1), JInt(2)}

OrderSpineItems ==
    {SpineItem(id, JStr("CH0201_spr"), JStr("spr"), JStr("")) : id \in OrderSpineIds}
    \cup {SpineItem(id, JStr("J_ch0201"), JStr("spr"), JText(ZH_SWIMSUIT)) : id \in OrderSpineIds}
    \cup {SpineItem(id, JStr("hoshino_spr"), JStr("spr"), JStr("")) : id \in OrderSpineIds}
    \cup {SpineItem(id, JStr("CH0201_cn"), JStr("spr"), JStr("")) : id \in OrderSpineIds}

\* the orders of n things
Orders(n) == {f \in [1..n -> 1..n] : \A a, b \in 1..n : f[a] = f[b] => a = b}

InitOrder ==
    /\ pjson = BodyNormal(Ints(<<>>))
    /\ pspines \in ListsUpTo(OrderSpineItems, MaxSpines)
    /\ pres = JNull
    /\ pspines2 = <<>>
    /\ pres2 = JNull
    /\ NormIdle /\ LabelIdle /\ WriteIdle /\ RunIdle

\* the two results are kept
KeepParsed(reordered, parsed) ==
    /\ pres' = parsed[1]
    /\ pspines2' = reordered
    /\ pres2' = parsed[2]

\* parser.parse on each of the two lists
ParseLists(lists) == KeepParsed(lists[2], [n \in 1..2 |-> parse(pjson, 5, lists[n])])

\* parser.parse on the assets as listed and on the same assets in the order f
ParseReordered ==
    /\ pres = JNull
    /\ \E f \in Orders(Len(pspines)) :
          ParseLists(<<pspines, [k \in 1..Len(pspines) |-> pspines[f[k]]]>>)
    /\ UNCHANGED <<pjson, pspines, normVars, labelVars, writeVars, configVars, taskVars,
                   netVars, mainVars>>

NextOrder == ParseReordered

SpecOrder == InitOrder /\ [][NextOrder]_vars

\* the elements of a list
Range(xs) == {xs[k] : k \in 1..Len(xs)}

\* the assets of the list have pairwise distinct positive ids
DistinctPositiveIds ==
    /\ \A i \in 1..Len(pspines) : OrZero(GetOrNone(pspines[i], "id")) > 0
    /\ \A i, j \in 1..Len(pspines) :
          i # j => GetOrNone(pspines[i], "id") # GetOrNone(pspines[j], "id")

\* the asset of the group of i that the merge keeps: the earliest of those whose
\* id (0 for a missing one) is the largest of the group
KeptAsset(i) ==
    LET top == {j \in SameIdent(i) :
                  \A k \in SameIdent(i) :
                     OrZero(GetOrNone(pspines[k], "id")) <= OrZero(GetOrNone(pspines[j], "id"))}
    IN  CHOOSE j \in top : \A k \in top : j <= k

\* C27: for a spine list whose assets have pairwise distinct positive ids, the
\* set of Forms and the set of SkipRecords that parse returns do not depend on
\* the order of the assets in the list; among assets of one identifier whose
\* ids are equal or missing (a missing id counts as 0) the earlier asset in the
\* list is kept
C27_MergeOrderIndependent ==
    /\ (pres2 # JNull /\ DistinctPositiveIds) =>
          /\ Range(pres2.forms) = Range(pres.forms)
          /\ Range(pres2.skipped) = Range(pres.skipped)
          /\ pres2.reason = pres.reason
    /\ ParseRanLoop =>
          \A i \in AcceptedAssets :
             FormOf(pjson.v["data"], 5, pspines[KeptAsset(i)], IdentOf(i)) \in Range(pres.forms)

\* two assets of one identifier, the smaller id first, parsed in both orders:
\* the same one Form, built from the asset with the larger id
C27_Witness ==
    /\ pres2 # JNull
    /\ DistinctPositiveIds
    /\ Len(pspines) = 2
    /\ pspines2 = <<pspines[2], pspines[1]>>
    /\ IdentOf(1) = "CH0201" /\ IdentOf(2) = "CH0201"
    /\ pspines[1].v["id"] = JInt(1) /\ pspines[2].v["id"] = JInt(2)
    /\ pspines[1].v["remark"] # pspines[2].v["remark"]
    /\ Len(pres.forms) = 1 /\ pres.forms[1].spine_id = JInt(2)
    /\ pres2.forms = pres.forms

\* C24: the extractor gives the same result for the raw character payload and
\* for the cleaned payload the cache stores: parse(p) and
\* parse(clean_student_data(p)) return the same Forms, SkipRecords and skip
\* reason, for every payload p (that the cleaner accepts) and every list of
\* spine assets
C24_CleanPreservesExtraction ==
    (pres # JNull /\ ~CleanRaises(pjson)) =>
        parse(_clean_student_data(pjson), 5, pspines) = pres

(***************************************************************************)
(* main, Crawler.refresh_students / get_all_student_forms_from_cache and   *)
(* process_student_id.  asyncio.as_completed hands each task's result to   *)
(* the crawler's loop in completion order, so a task's return and the      *)
(* loop's extend are one step.  An exception that leaves a task reaches    *)
(* `await future` in the loop and leaves main: the run is aborted.         *)
(* check_mode and test_id are main's arguments; InitRun follows them.      *)
(***************************************************************************)
\* python main.py: the complete run
FullRun == check_mode = FALSE /\ test_id = JNull

InitRun(n, responses, caches, spine_caches, downs) ==
    /\ FINAL_STUDENT_ID = n
    /\ FINAL_SPINE_ID = Len(SpineDB)
    /\ student_ids = 1..n
    /\ state_file \in {[max_student_id |-> 0, max_spine_id |-> 0],
                       [max_student_id |-> n, max_spine_id |-> Len(SpineDB)]}
    /\ need_update = check_updates(state_file.max_student_id, state_file.max_spine_id,
                                   FINAL_STUDENT_ID, FINAL_SPINE_ID)
    /\ max_concurrent \in 1..MAX_CONCURRENT_REQUESTS
    /\ sem = max_concurrent
    /\ api \in [1..n -> responses]
    /\ spine_down \in downs
    /\ student_cache \in caches
    /\ spine_cache \in spine_caches
    /\ pc = [id \in 1..n |-> "start"]
    /\ json_data = [id \in 1..n |-> JNull]
    /\ fetch_reason = [id \in 1..n |-> JNull]
    /\ from_cache = [id \in 1..n |-> FALSE]
    /\ spine_results = [id \in 1..n |-> <<>>]
    /\ spine_pending = [id \in 1..n |-> <<>>]
    /\ delays = [id \in 1..n |-> 0]
    /\ ret = [id \in 1..n |-> JNull]
    /\ student_req_count = 0
    /\ spine_req_count = 0
    /\ net_students = [id \in 1..n |-> 0]
    /\ net_spines = 0
    /\ all_student_forms = <<>>
    /\ skipped_records = <<>>
    /\ main_pc = IF test_id # JNull THEN "test" ELSE IF check_mode THEN "check" ELSE "crawl"
    /\ out_forms = <<>>
    /\ out_skipped = <<>>
    /\ NormIdle /\ ParseIdle /\ LabelIdle /\ WriteIdle

\* mutant: a task enters without waiting for a free slot
AcquireWithoutLimit(id) ==
    /\ main_pc = "crawl"
    /\ pc[id] = "start"
    /\ sem' = sem - 1
    /\ pc' = [pc EXCEPT ![id] = "fetch"]
    /\ UNCHANGED <<pureVars, configVars, spine_pending, netVars, json_data, fetch_reason, from_cache,
                   spine_results, delays, ret, state_file, student_cache, spine_cache,
                   student_req_count, spine_req_count, all_student_forms, skipped_records,
                   main_pc, out_forms, out_skipped>>

\* async with semaphore: enter
Acquire(id) ==
    /\ main_pc = "crawl"
    /\ pc[id] = "start"
    /\ sem > 0
    /\ sem' = sem - 1
    /\ pc' = [pc EXCEPT ![id] = "fetch"]
    /\ UNCHANGED <<pureVars, configVars, spine_pending, netVars, json_data, fetch_reason, from_cache,
                   spine_results, delays, ret, state_file, student_cache, spine_cache,
                   student_req_count, spine_req_count, all_student_forms, skipped_records,
                   main_pc, out_forms, out_skipped>>

\* mutant: increments that overlap are lost
CountRequestsLossy(count, n) == IF n > 0 THEN count + 1 ELSE count

\* self.student_req_count += 1 and self.spine_req_count += 1, n times
CountRequests(count, n) == count + n

\* the request of fetch_student_data: count it, ask the API, save a code-2000 payload
StudentRequest(id) ==
    LET r == RequestStudent(api[id])
    IN  /\ student_req_count' = CountRequests(student_req_count, 1)
        /\ net_students' = [net_students EXCEPT ![id] = @ + 1]
        /\ json_data' = [json_data EXCEPT ![id] = r.json_data]
        /\ fetch_reason' = [fetch_reason EXCEPT ![id] = r.reason]
        /\ from_cache' = [from_cache EXCEPT ![id] = FALSE]
        /\ student_cache' = IF r.save THEN [student_cache EXCEPT ![id] = r.json_data]
                            ELSE student_cache

\* client.fetch_student_data(student_id): the cache first, the API on a miss
FetchStudent(id) ==
    /\ main_pc = "crawl"
    /\ pc[id] = "fetch"
    /\ IF Truthy(student_cache[id])
       THEN /\ json_data' = [json_data EXCEPT ![id] = student_cache[id]]
            /\ fetch_reason' = [fetch_reason EXCEPT ![id] = JNull]
            /\ from_cache' = [from_cache EXCEPT ![id] = TRUE]
            /\ pc' = [pc EXCEPT ![id] = IF need_update THEN "refetch" ELSE "fetched"]
            /\ UNCHANGED <<student_req_count, net_students, student_cache>>
       ELSE /\ StudentRequest(id)
            /\ pc' = [pc EXCEPT ![id] = "sleep"]
    /\ UNCHANGED <<pureVars, configVars, spine_pending, net_spines, spine_results, delays, ret, state_file,
                   spine_cache, sem, spine_req_count, all_student_forms, skipped_records,
                   main_pc, out_forms, out_skipped>>

\* mutant: when the forced request gives nothing the cached payload is kept
ForcedFetchFallingBack(id) ==
    /\ main_pc = "crawl"
    /\ pc[id] = "refetch"
    /\ student_req_count' = CountRequests(student_req_count, 1)
    /\ net_students' = [net_students EXCEPT ![id] = @ + 1]
    /\ json_data' = [json_data EXCEPT ![id] =
                       IF Truthy(RequestStudent(api[id]).json_data)
                       THEN RequestStudent(api[id]).json_data ELSE @]
    /\ fetch_reason' = [fetch_reason EXCEPT ![id] = RequestStudent(api[id]).reason]
    /\ from_cache' = [from_cache EXCEPT ![id] = FALSE]
    /\ student_cache' = IF RequestStudent(api[id]).save
                        THEN [student_cache EXCEPT ![id] = RequestStudent(api[id]).json_data]
                        ELSE student_cache
    /\ pc' = [pc EXCEPT ![id] = "sleep"]
    /\ UNCHANGED <<pureVars, configVars, spine_pending, net_spines, spine_results, delays, ret, state_file,
                   spine_cache, sem, spine_req_count, all_student_forms, skipped_records,
                   main_pc, out_forms, out_skipped>>

\* force_refresh and from_cache: client.fetch_student_data(student_id, force_refresh=True)
ForcedFetch(id) ==
    /\ main_pc = "crawl"
    /\ pc[id] = "refetch"
    /\ StudentRequest(id)
    /\ pc' = [pc EXCEPT ![id] = "sleep"]
    /\ UNCHANGED <<pureVars, configVars, spine_pending, net_spines, spine_results, delays, ret, state_file,
                   spine_cache, sem, spine_req_count, all_student_forms, skipped_records,
                   main_pc, out_forms, out_skipped>>

\* mutant: the task goes on without the delay
SleepSkipped(id) ==
    /\ main_pc = "crawl"
    /\ pc[id] = "sleep"
    /\ pc' = [pc EXCEPT ![id] = "fetched"]
    /\ UNCHANGED <<pureVars, configVars, spine_pending, netVars, json_data, fetch_reason, from_cache,
                   spine_results, delays, ret, state_file, student_cache, spine_cache, sem,
                   student_req_count, spine_req_count, all_student_forms, skipped_records,
                   main_pc, out_forms, out_skipped>>

\* if not from_cache: await asyncio.sleep(delay)
Sleep(id) ==
    /\ main_pc = "crawl"
    /\ pc[id] = "sleep"
    /\ delays' = [delays EXCEPT ![id] = @ + 1]
    /\ pc' = [pc EXCEPT ![id] = "fetched"]
    /\ UNCHANGED <<pureVars, configVars, spine_pending, netVars, json_data, fetch_reason, from_cache,
                   spine_results, ret, state_file, student_cache, spine_cache, sem,
                   student_req_count, spine_req_count, all_student_forms, skipped_records,
                   main_pc, out_forms, out_skipped>>

\* the task returns (student_id, forms, skipped): the slot is released and the
\* crawler's loop extends its lists
Return(id, forms, skipped) ==
    /\ ret' = [ret EXCEPT ![id] = [forms |-> forms, skipped |-> skipped]]
    /\ pc' = [pc EXCEPT ![id] = "done"]
    /\ sem' = sem + 1
    /\ all_student_forms' = all_student_forms \o forms
    /\ skipped_records' = skipped_records \o skipped

\* mutant: a failed fetch is tried again instead of being reported
RetryFetchFailure(id) ==
    /\ main_pc = "crawl"
    /\ pc[id] = "fetched"
    /\ ~Truthy(json_data[id])
    /\ pc' = [pc EXCEPT ![id] = "refetch"]
    /\ UNCHANGED <<pureVars, configVars, spine_pending, netVars, json_data, fetch_reason, from_cache,
                   spine_results, delays, ret, sem, state_file, student_cache, spine_cache,
                   student_req_count, spine_req_count, all_student_forms, skipped_records,
                   main_pc, out_forms, out_skipped>>

\* if not json_data: one SkippedRecord with the fetch reason
ReturnFetchFailure(id) ==
    /\ main_pc = "crawl"
    /\ pc[id] = "fetched"
    /\ ~Truthy(json_data[id])
    /\ Return(id, <<>>,
           <<SkippedRecord(id, JNull,
                 IF Truthy(fetch_reason[id]) THEN fetch_reason[id].v ELSE REASON_UNKNOWN_NETWORK,
                 JNull, JNull, JStr(""), "", "", JStr(""))>>)
    /\ UNCHANGED <<pureVars, configVars, spine_pending, netVars, json_data, fetch_reason, from_cache,
                   spine_results, delays, state_file, student_cache, spine_cache,
                   student_req_count, spine_req_count, main_pc, out_forms, out_skipped>>

\* the occurrences of sids that miss the cache, in order
RECURSIVE Missed(_, _)
Missed(sids, cache) ==
    IF sids = <<>> THEN <<>>
    ELSE IF SpineCacheMiss(Head(sids), cache) THEN <<Head(sids)>> \o Missed(Tail(sids), cache)
    ELSE Missed(Tail(sids), cache)

\* spine_ids = json_data.get("data", {}).get("spine", []) and the start of the gather:
\* every fetch_spine_data looks its id up, and on a miss counts and sends its request
RequestSpines(id) ==
    /\ main_pc = "crawl"
    /\ pc[id] = "fetched"
    /\ Truthy(json_data[id])
    /\ ~SpineIdsRaise(json_data[id])
    /\ LET sids == SpineIdsOf(json_data[id])
           raw == [k \in 1..Len(sids) |-> fetch_spine_data(sids[k], spine_cache, spine_down)]
           missed == Missed(sids, spine_cache)
       IN  /\ spine_results' = [spine_results EXCEPT ![id] = NotNone(raw)]
           /\ spine_pending' = [spine_pending EXCEPT ![id] = missed]
           /\ spine_req_count' = CountRequests(spine_req_count, Len(missed))
           /\ net_spines' = net_spines + Len(missed)
    /\ pc' = [pc EXCEPT ![id] = "spines"]
    /\ UNCHANGED <<pureVars, configVars, json_data, fetch_reason, from_cache, delays,
                   ret, state_file, student_cache, spine_cache, sem, student_req_count,
                   net_students, all_student_forms, skipped_records, main_pc, out_forms,
                   out_skipped>>

\* the answers arrive: every served request saves its response, and the gather ends
ReceiveSpines(id) ==
    /\ main_pc = "crawl"
    /\ pc[id] = "spines"
    /\ LET saved == {spine_pending[id][k] : k \in {k \in 1..Len(spine_pending[id]) :
                                                  SpineServed(spine_pending[id][k], spine_down)}}
       IN  spine_cache' = [sid \in SpineIds |->
                             IF sid \in saved THEN SpineResponse(sid) ELSE spine_cache[sid]]
    /\ spine_pending' = [spine_pending EXCEPT ![id] = <<>>]
    /\ pc' = [pc EXCEPT ![id] = "parse"]
    /\ UNCHANGED <<pureVars, configVars, json_data, fetch_reason, from_cache, spine_results,
                   delays, ret, state_file, student_cache, sem, student_req_count,
                   spine_req_count, netVars, all_student_forms, skipped_records, main_pc,
                   out_forms, out_skipped>>

\* the same line raises (AttributeError or TypeError): the exception leaves the
\* task, releases the slot and ends the crawler's loop
RaiseInTask(id) ==
    /\ main_pc = "crawl"
    /\ pc[id] = "fetched"
    /\ Truthy(json_data[id])
    /\ SpineIdsRaise(json_data[id])
    /\ pc' = [pc EXCEPT ![id] = "raised"]
    /\ sem' = sem + 1
    /\ main_pc' = "aborted"
    /\ UNCHANGED <<pureVars, configVars, spine_pending, netVars, json_data, fetch_reason, from_cache,
                   spine_results, delays, ret, state_file, student_cache, spine_cache,
                   student_req_count, spine_req_count, all_student_forms, skipped_records,
                   out_forms, out_skipped>>

\* the SkippedRecord of a student that parse rejected as a whole
StudentSkip(id, payload, student_skip_reason) ==
    LET data == Get(payload, "data", EmptyDict)
        name == _build_name(GetOrNone(data, "family_name"), GetOrNone(data, "given_name"))
    IN  SkippedRecord(id, JNull, student_skip_reason, JNull, JNull,
            IF name # "" THEN JStr(name) ELSE Get(data, "given_name_cn", JStr("")),
            _build_name(GetOrNone(data, "family_name_jp"), GetOrNone(data, "given_name_jp")),
            _build_name(GetOrNone(data, "family_name_en"), GetOrNone(data, "given_name_en")),
            Get(data, "school", JStr("")))

\* all_skipped: the skipped assets, and the student's own record if parse gave a reason
ReturnParsed(id, parsed) ==
    Return(id, parsed.forms,
        IF Truthy(parsed.reason)
        THEN Append(parsed.skipped, StudentSkip(id, json_data[id], parsed.reason.v))
        ELSE parsed.skipped)

\* parser.parse(...) and the return of its forms and skipped records
ParseAndReturn(id) ==
    /\ main_pc = "crawl"
    /\ pc[id] = "parse"
    /\ ReturnParsed(id, parse(json_data[id], id, spine_results[id]))
    /\ UNCHANGED <<pureVars, configVars, spine_pending, netVars, json_data, fetch_reason, from_cache,
                   spine_results, delays, state_file, student_cache, spine_cache,
                   student_req_count, spine_req_count, main_pc, out_forms, out_skipped>>

AllDone == \A id \in student_ids : pc[id] = "done"

\* mutant: the state is saved while tasks of the refresh are still running
SaveStateBeforeTasksEnd ==
    /\ main_pc = "crawl"
    /\ need_update
    /\ state_file' = [max_student_id |-> FINAL_STUDENT_ID, max_spine_id |-> FINAL_SPINE_ID]
    /\ main_pc' = "sort"
    /\ UNCHANGED <<pureVars, configVars, netVars, taskVars, student_cache, spine_cache, sem,
                   student_req_count, spine_req_count, all_student_forms, skipped_records,
                   out_forms, out_skipped>>

\* refresh_students has returned: cache_manager.save_state(remote ids)
SaveState ==
    /\ main_pc = "crawl"
    /\ AllDone
    /\ need_update
    /\ state_file' = [max_student_id |-> FINAL_STUDENT_ID, max_spine_id |-> FINAL_SPINE_ID]
    /\ main_pc' = "sort"
    /\ UNCHANGED <<pureVars, configVars, netVars, taskVars, student_cache, spine_cache, sem,
                   student_req_count, spine_req_count, all_student_forms, skipped_records,
                   out_forms, out_skipped>>

\* the two sorts and the two writers of main
SortAndWrite ==
    /\ \/ main_pc = "sort"
       \/ main_pc = "crawl" /\ AllDone /\ ~need_update
    /\ all_student_forms' = SortForms(all_student_forms)
    /\ skipped_records' = SortSkipped(skipped_records)
    /\ out_forms' = all_student_forms'
    /\ out_skipped' = skipped_records'
    /\ main_pc' = "written"
    /\ UNCHANGED <<pureVars, configVars, netVars, taskVars, state_file, student_cache,
                   spine_cache, sem, student_req_count, spine_req_count>>

Next ==
    \/ \E id \in student_ids : Acquire(id)
    \/ \E id \in student_ids : FetchStudent(id)
    \/ \E id \in student_ids : ForcedFetch(id)
    \/ \E id \in student_ids : Sleep(id)
    \/ \E id \in student_ids : ReturnFetchFailure(id)
    \/ \E id \in student_ids : RequestSpines(id)
    \/ \E id \in student_ids : ReceiveSpines(id)
    \/ \E id \in student_ids : RaiseInTask(id)
    \/ \E id \in student_ids : ParseAndReturn(id)
    \/ SaveState
    \/ SortAndWrite

Init == FullRun /\ InitRun(NumStudents, BatchResponses, BatchCaches(NumStudents), {EmptySpineCache}, {{}})

Spec == Init /\ [][Next]_vars

InitTask ==
    FullRun /\ InitRun(1, TaskResponses, TaskCaches, {EmptySpineCache, FullSpineCache},
            {{}, {1}, {2}, SpineIds})

SpecTask == InitTask /\ [][Next]_vars

(***************************************************************************)
(* main in its three modes: the test mode (run_test_mode on one id), the   *)
(* check mode, and the complete run.                                       *)
(***************************************************************************)
\* [data for data, error in spine_results_raw if data]
RECURSIVE OnlyTruthy(_)
OnlyTruthy(seq) ==
    IF seq = <<>> THEN <<>>
    ELSE IF Truthy(Head(seq)) THEN <<Head(seq)>> \o OnlyTruthy(Tail(seq))
    ELSE OnlyTruthy(Tail(seq))

\* if check_mode: return (after the state was read and check_updates has answered)
CheckOnly ==
    /\ main_pc = "check"
    /\ main_pc' = "returned"
    /\ UNCHANGED <<pureVars, configVars, netVars, taskVars, state_file, student_cache,
                   spine_cache, sem, student_req_count, spine_req_count, all_student_forms,
                   skipped_records, out_forms, out_skipped>>

\* run_test_mode: client.fetch_student_data(test_id, force_refresh=True)
RunTestFetch ==
    /\ main_pc = "test"
    /\ pc[test_id.v] = "start"
    /\ StudentRequest(test_id.v)
    /\ pc' = [pc EXCEPT ![test_id.v] = "fetched"]
    /\ UNCHANGED <<pureVars, configVars, spine_pending, net_spines, spine_results, delays, ret,
                   state_file, spine_cache, sem, spine_req_count, all_student_forms,
                   skipped_records, main_pc, out_forms, out_skipped>>

\* the fetch of run_test_mode gave nothing to parse
TestFetchFailed ==
    IF Truthy(json_data[test_id.v])
    THEN GetOrNone(json_data[test_id.v], "code") # JInt(SUCCESS_CODE)
    ELSE TRUE

\* run_test_mode: the failure is printed and main returns
RunTestFailed ==
    /\ main_pc = "test"
    /\ pc[test_id.v] = "fetched"
    /\ TestFetchFailed
    /\ pc' = [pc EXCEPT ![test_id.v] = "done"]
    /\ main_pc' = "returned"
    /\ UNCHANGED <<pureVars, configVars, spine_pending, netVars, json_data, fetch_reason,
                   from_cache, spine_results, delays, ret, state_file, student_cache,
                   spine_cache, sem, student_req_count, spine_req_count, all_student_forms,
                   skipped_records, out_forms, out_skipped>>

\* run_test_mode: the spine list is read, its assets are fetched and saved, the
\* payload is parsed and the first Form (or the reason) is printed
RunTestParse ==
    /\ main_pc = "test"
    /\ pc[test_id.v] = "fetched"
    /\ ~TestFetchFailed
    /\ ~SpineIdsRaise(json_data[test_id.v])
    /\ LET sids == SpineIdsOf(json_data[test_id.v])
           raw == [k \in 1..Len(sids) |-> fetch_spine_data(sids[k], spine_cache, spine_down)]
           missed == Missed(sids, spine_cache)
           saved == {missed[k] : k \in {k \in 1..Len(missed) : SpineServed(missed[k], spine_down)}}
       IN  /\ spine_results' = [spine_results EXCEPT ![test_id.v] = OnlyTruthy(raw)]
           /\ spine_req_count' = CountRequests(spine_req_count, Len(missed))
           /\ net_spines' = net_spines + Len(missed)
           /\ spine_cache' = [sid \in SpineIds |->
                                 IF sid \in saved THEN SpineResponse(sid) ELSE spine_cache[sid]]
    /\ pc' = [pc EXCEPT ![test_id.v] = "done"]
    /\ main_pc' = "returned"
    /\ UNCHANGED <<pureVars, configVars, spine_pending, net_students, json_data, fetch_reason,
                   from_cache, delays, ret, state_file, student_cache, sem, student_req_count,
                   all_student_forms, skipped_records, out_forms, out_skipped>>

\* run_test_mode: reading the spine list raises, and the exception leaves main
RunTestRaise ==
    /\ main_pc = "test"
    /\ pc[test_id.v] = "fetched"
    /\ ~TestFetchFailed
    /\ SpineIdsRaise(json_data[test_id.v])
    /\ pc' = [pc EXCEPT ![test_id.v] = "raised"]
    /\ main_pc' = "aborted"
    /\ UNCHANGED <<pureVars, configVars, spine_pending, netVars, json_data, fetch_reason,
                   from_cache, spine_results, delays, ret, state_file, student_cache,
                   spine_cache, sem, student_req_count, spine_req_count, all_student_forms,
                   skipped_records, out_forms, out_skipped>>

NextMain ==
    \/ Next
    \/ CheckOnly
    \/ RunTestFetch
    \/ RunTestFailed
    \/ RunTestParse
    \/ RunTestRaise

\* the answers of the runs of main: those of the batch runs, a request that
\* fails, a failed status and a payload whose code is not 2000
MainResponses ==
    BatchResponses \cup {RespNetworkError, RespHttpError, RespJson(BodyErrorEnvelope)}

InitMain ==
    /\ check_mode \in BOOLEAN
    /\ test_id \in {JNull} \cup {JInt(id) : id \in 1..NumStudents}
    /\ InitRun(NumStudents, MainResponses, BatchCaches(NumStudents), {EmptySpineCache}, {{}})

SpecMain == InitMain /\ [][NextMain]_vars

(***************************************************************************)
(* Properties of main in its three modes, checked under SpecMain           *)
(***************************************************************************)
\* main runs the complete run and has found that an update is needed
RefreshPath == ~check_mode /\ test_id = JNull /\ need_update

\* C28: the persisted state (max student id, max spine id) is written only on
\* the refresh path and only after every character task of the refresh has
\* completed; the check mode, the test mode and the no-update path leave the
\* state file unchanged, and the check mode and the test mode write no
\* output file
C28_StateSavedAfterRefresh ==
    [][/\ state_file' # state_file =>
            /\ RefreshPath
            /\ AllDone
            /\ state_file' = [max_student_id |-> FINAL_STUDENT_ID, max_spine_id |-> FINAL_SPINE_ID]
       /\ (check_mode \/ test_id # JNull) =>
            /\ main_pc' # "written"
            /\ out_forms' = out_forms
            /\ out_skipped' = out_skipped]_vars

\* a refresh whose two tasks both asked the API has ended and the state is saved
C28_Witness ==
    /\ RefreshPath
    /\ main_pc = "sort"
    /\ AllDone
    /\ \A id \in student_ids : net_students[id] = 1
    /\ state_file = [max_student_id |-> FINAL_STUDENT_ID, max_spine_id |-> FINAL_SPINE_ID]

\* the API answers id with a payload whose code is 2000
AnswersSuccess(id) ==
    IF api[id].kind = "json" /\ api[id].body.t = "dict"
    THEN GetOrNone(api[id].body, "code") = JInt(SUCCESS_CODE)
    ELSE FALSE

OfficialCharacter(payload) ==
    /\ payload.t = "dict"
    /\ GetOrNone(payload, "data").t = "dict"
    /\ GetOrNone(payload.v["data"], "school") = JInt(OFFICIAL_SCHOOL)
    /\ Get(payload.v["data"], "spine", JList(<<>>)).t = "list"

TaskEnded(id) == pc[id] \in {"done", "raised"}

\* what the task of id returned holds a Form or a SkipRecord of that id
Reported(id) ==
    /\ ret[id] # JNull
    /\ \/ \E k \in 1..Len(ret[id].forms) : ret[id].forms[k].char_id = id
       \/ \E k \in 1..Len(ret[id].skipped) : ret[id].skipped[k].student_id = id

\* C4: a character never vanishes from both outputs: a task that has ended
\* returned at least one Form or one SkipRecord of its id, and when the
\* extraction found neither, exactly one SkipRecord with the reason
\* "no parseable form found".
C4_CharacterNeverVanishes ==
    \A id \in student_ids :
        TaskEnded(id) =>
            /\ Reported(id)
            /\ (/\ Truthy(json_data[id])
                /\ parse(json_data[id], id, spine_results[id]).reason = JStr(REASON_NO_FORM)) =>
                    /\ ret[id].forms = <<>>
                    /\ Len(ret[id].skipped) = 1
                    /\ ret[id].skipped[1].reason = REASON_NO_FORM

\* C6: a malformed character payload degrades to a SkipRecord and no
\* exception leaves process_student_id: no task ends by raising.
C6_MalformedNeverRaises ==
    \A id \in student_ids : pc[id] # "raised"

\* the character of the task has name components in all languages, an empty
\* base skin label and the one spine asset "CH0087_1" of type "spr" with the
\* default-pose remark, and that asset was fetched
DefaultPoseCharacter(id) ==
    /\ pc[id] = "done"
    /\ json_data[id].t = "dict" /\ HasKey(json_data[id], "data")
    /\ json_data[id].v["data"].t = "dict"
    /\ GetOrNone(json_data[id].v["data"], "id") = JInt(87)
    /\ GetOrNone(json_data[id].v["data"], "skin") = JStr("")
    /\ spine_results[id] = <<SpineItem(JInt(7), JStr("CH0087_1"), JStr("spr"), JText(ZH_INITIAL_POSE))>>

\* every name column of the form is the bare name of its language and the
\* skin_name is empty
BareNames(form) ==
    /\ form.full_name = TextOf("Shalang Baizi") /\ form.name = TextOf("Shalang Baizi")
    /\ form.name_cn = TextOf("Shalang Baizi") /\ form.name_tw = TextOf("Shalang Baizi")
    /\ form.name_jp = TextOf("Sunaookami Shiroko") /\ form.name_en = TextOf("Sunaookami Shiroko")
    /\ form.name_kr = TextOf("Seunaokami Siroko")
    /\ form.skin_name = <<>>

\* C11 as stated: for a character with name components in all languages, an
\* empty base skin label and the single spine asset "CH0087_1" of type "spr"
\* with the default-pose remark, extraction yields exactly one Form whose
\* identifier is the whole name lower-cased by the fallback path, "ch0087_1",
\* and whose name fields are the bare names
C11_FallbackIdentifier ==
    \A id \in student_ids :
        DefaultPoseCharacter(id) =>
            /\ Len(ret[id].forms) = 1
            /\ ret[id].forms[1].file_id = "ch0087_1"
            /\ BareNames(ret[id].forms[1])

\* C11 amended: for the same character and asset, extraction yields exactly
\* one Form and no SkipRecord; its identifier is "CH0087", the CH/NP pattern
\* match cut from the name and upper-cased, its asset id is that of the asset,
\* and its name fields are the bare names
C11_StandardIdentifier ==
    \A id \in student_ids :
        DefaultPoseCharacter(id) =>
            /\ Len(ret[id].forms) = 1
            /\ ret[id].skipped = <<>>
            /\ ret[id].forms[1].file_id = "CH0087"
            /\ ret[id].forms[1].char_id = id
            /\ ret[id].forms[1].spine_id = JInt(7)
            /\ BareNames(ret[id].forms[1])

C11_Witness ==
    \E id \in student_ids :
        /\ DefaultPoseCharacter(id)
        /\ Len(ret[id].forms) = 1
        /\ ret[id].forms[1].file_id = "CH0087"
        /\ ret[id].forms[1].full_name = TextOf("Shalang Baizi")

\* the API answered the request for id with not-found (the task's last fetch
\* was a request, not a cache hit)
NotFoundFetched(id) == api[id] = Resp404 /\ ~from_cache[id]

\* C7: when the fetch of a character returns not-found, the task returns
\* zero Forms and exactly one SkipRecord with the not-found reason, and the
\* character-level delay is applied exactly once, before the admission slot
\* is released: the slot is held while the delay is pending.
C7_NotFoundSkippedAfterDelay ==
    \A id \in student_ids :
        NotFoundFetched(id) =>
            /\ pc[id] = "sleep" => delays[id] = 0 /\ ret[id] = JNull /\ sem < max_concurrent
            /\ pc[id] = "done" =>
                  /\ delays[id] = 1
                  /\ ret[id].forms = <<>>
                  /\ Len(ret[id].skipped) = 1
                  /\ ret[id].skipped[1].student_id = id
                  /\ ret[id].skipped[1].reason = REASON_NOT_FOUND
                  /\ ret[id].skipped[1].spine_id = JNull

\* a not-found answer, the delay done once, the SkipRecord returned and the
\* slot free again
C7_Witness ==
    \E id \in student_ids :
        /\ NotFoundFetched(id)
        /\ pc[id] = "done"
        /\ student_req_count = 1
        /\ delays[id] = 1
        /\ ret[id].forms = <<>>
        /\ Len(ret[id].skipped) = 1
        /\ ret[id].skipped[1].reason = REASON_NOT_FOUND
        /\ sem = max_concurrent

\* the spine ids of the payload of id whose fetch fails: not in the cache and
\* not served
FailedSpines(id) ==
    {sid \in Range(SpineIdsOf(json_data[id])) :
        SpineCacheMiss(sid, spine_cache) /\ ~SpineServed(sid, spine_down)}

\* the assets of the spine ids of id whose fetch succeeds, in the list's order
RECURSIVE FetchedAssets(_, _)
FetchedAssets(sids, failed) ==
    IF sids = <<>> THEN <<>>
    ELSE IF Head(sids) \in failed THEN FetchedAssets(Tail(sids), failed)
    ELSE <<SpineDB[Head(sids)]>> \o FetchedAssets(Tail(sids), failed)

\* the task of id has returned after its gather
ReturnedAfterGather(id) == pc[id] = "done" /\ Truthy(json_data[id])

\* every spine fetch of id failed, and there was one
AllSpinesFailed(id) ==
    /\ SpineIdsOf(json_data[id]) # <<>>
    /\ Range(SpineIdsOf(json_data[id])) = FailedSpines(id)

\* no Form and no SkipRecord of what id returned comes from a failed asset, and
\* the assets that were fetched are all given to parse, in order
FailedDropped(id) ==
    /\ \A k \in 1..Len(ret[id].forms) : OrZero(ret[id].forms[k].spine_id) \notin FailedSpines(id)
    /\ \A k \in 1..Len(ret[id].skipped) : OrZero(ret[id].skipped[k].spine_id) \notin FailedSpines(id)
    /\ spine_results[id] = FetchedAssets(SpineIdsOf(json_data[id]), FailedSpines(id))
    /\ ret[id].forms = parse(json_data[id], id, spine_results[id]).forms

\* id returned no Form and one SkipRecord, with this reason
OneSkipRecord(id, reason) ==
    /\ ret[id].forms = <<>>
    /\ Len(ret[id].skipped) = 1
    /\ ret[id].skipped[1].reason = reason

\* C30 as stated: a spine asset whose fetch fails contributes no Form and no
\* SkipRecord, the other assets of the character are still processed, and
\* when every spine fetch of a character fails the character yields exactly
\* one SkipRecord with the reason "no parseable form found"
C30_FailedSpineDropped ==
    \A id \in student_ids :
        ReturnedAfterGather(id) =>
            /\ FailedDropped(id)
            /\ AllSpinesFailed(id) => OneSkipRecord(id, REASON_NO_FORM)

\* C30, amended: ... and when every spine fetch of a character that passes the
\* validation gate fails the character yields exactly one SkipRecord with the
\* reason "no parseable form found"; a character that the gate rejects
\* yields its one SkipRecord with the gate's reason
C30_FailedSpineDroppedPastGate ==
    \A id \in student_ids :
        ReturnedAfterGather(id) =>
            /\ FailedDropped(id)
            /\ AllSpinesFailed(id) =>
                  OneSkipRecord(id,
                      IF _validate_and_get_skip_reason(json_data[id]) = JNull THEN REASON_NO_FORM
                      ELSE _validate_and_get_skip_reason(json_data[id]).v)

\* the fetch of asset 1 failed and asset 2 was fetched: the one Form is built
\* from asset 2 and nothing is reported for asset 1
C30_Witness ==
    /\ ReturnedAfterGather(1)
    /\ SpineIdsOf(json_data[1]) = <<1, 2>>
    /\ FailedSpines(1) = {1}
    /\ Len(ret[1].forms) = 1
    /\ ret[1].forms[1].spine_id = JInt(2)
    /\ ret[1].skipped = <<>>

\* the task of id has its payload: the fetch, and the forced fetch, are over
HasFetched(id) == pc[id] \in {"sleep", "fetched", "spines", "parse", "done", "raised"}

\* the request for id fails: not found, a transport error, or an exception
RequestFails(id) == RequestStudent(api[id]).reason # JNull

\* C31: in refresh mode the Forms of an id are derived from the freshly
\* fetched payload: every id triggers exactly one character-level request,
\* cached or not, and when that request fails for an id with a cached payload
\* the cached payload is not used: the id yields only one SkipRecord with the
\* reason of the fetch failure
C31_RefreshUsesFreshPayload ==
    \A id \in student_ids :
        RefreshPath =>
            /\ net_students[id] <= 1
            /\ HasFetched(id) =>
                  /\ net_students[id] = 1
                  /\ ~from_cache[id]
                  /\ json_data[id] = RequestStudent(api[id]).json_data
            /\ (pc[id] = "done" /\ Truthy(json_data[id])) =>
                  ret[id].forms = parse(RequestStudent(api[id]).json_data, id, spine_results[id]).forms
            /\ (pc[id] = "done" /\ RequestFails(id)) =>
                  /\ ret[id].forms = <<>>
                  /\ Len(ret[id].skipped) = 1
                  /\ ret[id].skipped[1].student_id = id
                  /\ ret[id].skipped[1].spine_id = JNull
                  /\ ret[id].skipped[1].reason = RequestStudent(api[id]).reason.v

\* a refresh over a cached character with two forms whose forced request is
\* answered 404: one request, the not-found record, and no Form of the cache
C31_Witness ==
    /\ RefreshPath
    /\ pc[1] = "done"
    /\ student_cache[1] = _clean_student_data(BodyNormal(Ints(<<1, 2>>)))
    /\ api[1] = Resp404
    /\ net_students[1] = 1
    /\ ret[1].forms = <<>>
    /\ Len(ret[1].skipped) = 1
    /\ ret[1].skipped[1].reason = REASON_NOT_FOUND

\* C26: on the no-update path (get_all_student_forms_from_cache) all character
\* data is read directly from the cache: the run issues no character-level
\* network request and applies no pacing delay
C26_NoUpdateReadsCacheOnly ==
    ~need_update =>
        /\ student_req_count = 0
        /\ \A id \in student_ids : net_students[id] = 0 /\ delays[id] = 0 /\ pc[id] # "sleep"

(***************************************************************************)
(* Properties of the whole run, checked under Spec                         *)
(***************************************************************************)
\* the lists given to the writers hold a Form or a SkipRecord of id
InOutputs(id) ==
    \/ \E k \in 1..Len(out_forms) : out_forms[k].char_id = id
    \/ \E k \in 1..Len(out_skipped) : out_skipped[k].student_id = id

\* C5: no error in processing one id prevents the processing of another:
\* whatever the answers for the ids are, the run is never aborted, and the
\* result given to the writers holds at least one Form or SkipRecord of
\* every id of the range.
C5_BatchCompletes ==
    /\ main_pc # "aborted"
    /\ main_pc = "written" => \A id \in student_ids : InOutputs(id)

\* xs is ascending under the strict order Less
FormsAscending(xs) == \A i, j \in 1..Len(xs) : i < j => ~FormKeyLess(xs[j], xs[i])

SkippedAscending(xs) == \A i, j \in 1..Len(xs) : i < j => ~SkipKeyLess(xs[j], xs[i])

\* the number of places of xs that hold x
Count(xs, x) == Cardinality({k \in 1..Len(xs) : xs[k] = x})

Holders == {id \in student_ids : pc[id] \notin {"start", "done", "raised"}}

\* C14: at any moment the number of character tasks that hold an admission
\* slot is at most the concurrency limit (the free slots and the holders add up
\* to it), there is exactly one task per character id, and a task that was
\* admitted is never admitted again
C14_AdmissionBounded ==
    /\ [](/\ DOMAIN pc = student_ids
          /\ Cardinality(Holders) <= max_concurrent
          /\ sem = max_concurrent - Cardinality(Holders))
    /\ [][\A id \in student_ids : pc[id] # "start" => pc'[id] # "start"]_vars

\* the limit is reached while another task waits for a slot
C14_Witness ==
    /\ main_pc = "crawl"
    /\ Cardinality(Holders) = max_concurrent
    /\ sem = 0
    /\ \E id \in student_ids : pc[id] = "start"

\* the task of id has passed the point of the delay
PastDelay(id) == pc[id] \in {"fetched", "spines", "parse", "done", "raised"}

\* C15: a task that issued a character-level request has paused exactly once
\* before it goes on and releases its slot, whether the request succeeded or
\* failed, and it holds its slot while the pause is pending; a task served
\* from a cache hit has not paused
C15_DelayIffRequest ==
    \A id \in student_ids :
        /\ pc[id] = "sleep" => net_students[id] = 1 /\ delays[id] = 0 /\ id \in Holders
        /\ PastDelay(id) =>
            /\ delays[id] = net_students[id]
            /\ from_cache[id] <=> net_students[id] = 0

\* a failed request was followed by the delay, and the slot is free again
C15_Witness ==
    \E id \in student_ids :
        /\ pc[id] = "done"
        /\ api[id] = RespHttpError
        /\ net_students[id] = 1
        /\ delays[id] = 1
        /\ sem = max_concurrent

\* the request for id ended in a transport failure
TransportFailed(id) == api[id] = RespNetworkError /\ net_students[id] > 0

\* C16: a transport failure of a character fetch gives zero Forms and exactly
\* one SkipRecord with the failure reason, and within one run each character
\* id triggers at most one character-level request
C16_FailureRecordedNotRetried ==
    \A id \in student_ids :
        /\ net_students[id] <= 1
        /\ (TransportFailed(id) /\ pc[id] = "done") =>
              /\ ret[id].forms = <<>>
              /\ Len(ret[id].skipped) = 1
              /\ ret[id].skipped[1].student_id = id
              /\ ret[id].skipped[1].reason = REASON_NETWORK

\* the forced re-fetch of a cached character failed: one request, one SkipRecord
C16_Witness ==
    \E id \in student_ids :
        /\ TransportFailed(id)
        /\ pc[id] = "done"
        /\ need_update /\ Truthy(student_cache[id])
        /\ net_students[id] = 1
        /\ Len(ret[id].skipped) = 1
        /\ ret[id].skipped[1].reason = REASON_NETWORK

\* the fetches in flight that will write a cache entry: <<task, place in its list>>
WritingFetches ==
    UNION {{<<id, k>> : k \in {k \in 1..Len(spine_pending[id]) :
                                  SpineServed(spine_pending[id][k], spine_down)}} :
           id \in student_ids}

\* C17: no two fetches in flight write the cache entry of the same numeric id:
\* the spine fetches of one task and of different tasks that will save their
\* response have different spine ids (each character id has one task, so no
\* two character fetches share an id)
C17_NoCacheKeyContention ==
    \A f, g \in WritingFetches :
        f # g => spine_pending[f[1]][f[2]] # spine_pending[g[1]][g[2]]

RECURSIVE SumTo(_, _)
SumTo(f, n) == IF n = 0 THEN 0 ELSE f[n] + SumTo(f, n - 1)

====
